---- MODULE Spec2Model ----
(***************************************************************************)
(* State-machine model of the Solana Stablecoin Standard programs          *)
(* (sss-core and its collaborators): the token configuration, the          *)
(* capability (role) records, the supply counters, the pause switch and    *)
(* the external token ledger the handlers call into.                       *)
(*                                                                         *)
(* Every request is one atomic transaction: the Anchor account validation  *)
(* of its #[derive(Accounts)] struct (all accounts are deserialized first, *)
(* then `init` accounts are created, then the constraints run in field     *)
(* order), followed by the handler body.  A request that ends in an error  *)
(* leaves every account as it was.                                         *)
(*                                                                         *)
(* 64-bit and 128-bit integers are modelled with the reduced widths        *)
(* U64_MAX and U128_MAX so that overflow is reachable.                     *)
(***************************************************************************)
EXTENDS Integers, Sequences, FiniteSets, TLC

\* ------------------------------------------------------------------ bounds
\* u64::MAX, scaled down.
U64_MAX == 3
\* u128::MAX, scaled with it: (u64::MAX + 1)^2 - 1.
U128_MAX == (U64_MAX + 1) * (U64_MAX + 1) - 1
\* u32::MAX (admin_count), scaled down.
U32_MAX == 4
\* u8 range of mint decimals and of the oracle exponent's magnitude, scaled.
MaxDecimals == 1
MaxExpo == 1
\* largest oracle price drawn
MaxPrice == 5

U64 == 0 .. U64_MAX

\* ------------------------------------------------------------- identities
Tokens == {"T1", "T2"}
Holders == {"h1", "h2", "h3"}
Accts == {"x", "y"}

\* Role::as_u8
Admin == 0
Minter == 1
Freezer == 2
Pauser == 3
Burner == 4
Blacklister == 5
Seizer == 6
Role == {Admin, Minter, Freezer, Pauser, Burner, Blacklister, Seizer}
\* the values a `role: u8` instruction argument is drawn from (7 is no role)
RoleBytes == 0 .. 7

\* Option<T>
None == <<>>
Some(v) == <<v>>
IsSome(o) == o # <<>>
Unwrap(o) == o[1]
OptU64 == {None} \cup {Some(v) : v \in U64}

\* u64::checked_add / checked_sub / saturating_sub, width given by max
checked_add(a, b, max) == IF a + b <= max THEN Some(a + b) ELSE None
checked_sub(a, b) == IF a >= b THEN Some(a - b) ELSE None
saturating_sub(a, b) == IF a >= b THEN a - b ELSE 0

\* Pubkey::find_program_address: the derivation is injective in its seeds, so
\* the derived address is modelled by the tuple of seeds itself.
ConfigPda(mint) == mint
RolePda(config, holder, role) == <<config, holder, role>>
RoleAddrs == Tokens \X Holders \X RoleBytes

\* ------------------------------------------------------------------ state
VARIABLES
    config,         \* StablecoinConfig accounts: token -> record (domain = accounts that exist)
    roles,          \* RoleAccount accounts: address -> record (domain = accounts that exist)
    mint_decimals,  \* external ledger: token -> decimals of its mint
    bal,            \* external ledger: token -> account -> balance
    frozen,         \* external ledger: token -> account -> frozen flag
    sum_minted,     \* per token: sum of the amounts of the mints that succeeded
    sum_burned,     \* per token: sum of the amounts of the burns that succeeded
    blacklist,      \* BlacklistEntry accounts: address -> record (domain = accounts that exist)
    last            \* the request processed last and its outcome

vars == <<config, roles, mint_decimals, bal, frozen, sum_minted, sum_burned, blacklist, last>>

NoRequest == [op |-> "none", t |-> "-", caller |-> "-", res |-> "-"]
Req(op, t, caller, res) == [op |-> op, t |-> t, caller |-> caller, res |-> res]

Init ==
    /\ config = <<>>
    /\ roles = <<>>
    /\ mint_decimals = [t \in Tokens |-> 0]
    /\ bal = [t \in Tokens |-> [a \in Accts |-> 0]]
    /\ frozen = [t \in Tokens |-> [a \in Accts |-> FALSE]]
    /\ sum_minted = [t \in Tokens |-> 0]
    /\ sum_burned = [t \in Tokens |-> 0]
    /\ blacklist = <<>>
    /\ last = NoRequest

\* account store helpers
Put(f, k, v) == [x \in (DOMAIN f) \cup {k} |-> IF x = k THEN v ELSE f[x]]
Del(f, k) == [x \in (DOMAIN f) \ {k} |-> f[x]]

\* a request that ended in an error: nothing persists but the outcome
Fail(op, t, caller, res) ==
    /\ last' = Req(op, t, caller, res)
    /\ UNCHANGED <<config, roles, mint_decimals, bal, frozen, sum_minted, sum_burned, blacklist>>

\* StablecoinConfig::current_supply
current_supply(c) == saturating_sub(c.total_minted, c.total_burned)

\* StablecoinConfig::can_mint
\* variant: the cap is compared with current_supply() + amount and the
\* cumulative counter is not looked at
can_mint_BySupply(c, amount) ==
    LET new_supply == checked_add(current_supply(c), amount, U64_MAX) IN
    IF ~IsSome(new_supply) THEN FALSE
    ELSE IF IsSome(c.supply_cap) THEN Unwrap(new_supply) <= Unwrap(c.supply_cap)
         ELSE TRUE

can_mint(c, amount) ==
    LET new_total == checked_add(c.total_minted, amount, U64_MAX) IN
    IF ~IsSome(new_total) THEN FALSE
    ELSE IF IsSome(c.supply_cap)
         THEN saturating_sub(Unwrap(new_total), c.total_burned) <= Unwrap(c.supply_cap)
         ELSE TRUE

\* ------------------------------------------------- account validation parts
\* Account<'info, T> deserialization: the account must exist and be owned by
\* the program, else AccountNotInitialized.
ConfigLoaded(t) == t \in DOMAIN config
RoleLoaded(ra) == ra \in DOMAIN roles

\* variant: seeds without the signer's key
RoleSeedsOk_NoSigner(ra, t, signer, role) == \E h \in Holders : ra = RolePda(ConfigPda(t), h, role)

\* seeds = [SSS_ROLE_SEED, config.key(), signer.key(), &[role.as_u8()]]
RoleSeedsOk(ra, t, signer, role) == ra = RolePda(ConfigPda(t), signer, role)

\* Validation shared by the role-gated instructions whose config carries no
\* pause constraint: deserialize config and the role account, then check the
\* role account's seeds against the signer.
RoleGate(t, signer, ra, role) ==
    IF ~ConfigLoaded(t) THEN "AccountNotInitialized"
    ELSE IF ~RoleLoaded(ra) THEN "AccountNotInitialized"
    ELSE IF ~RoleSeedsOk(ra, t, signer, role) THEN "ConstraintSeeds"
    ELSE "Ok"

\* variant: no pause constraint
NotPausedConstraint_Absent(c) == TRUE

\* constraint = !config.paused @ SssError::Paused
NotPausedConstraint(c) == ~c.paused

\* The same with the config constraint `!config.paused`, which runs after the
\* deserialization of every account and before the role account's seeds.
PausableRoleGate(t, signer, ra, role) ==
    IF ~ConfigLoaded(t) THEN "AccountNotInitialized"
    ELSE IF ~RoleLoaded(ra) THEN "AccountNotInitialized"
    ELSE IF ~NotPausedConstraint(config[t]) THEN "Paused"
    ELSE IF ~RoleSeedsOk(ra, t, signer, role) THEN "ConstraintSeeds"
    ELSE "Ok"

\* --------------------------------------------------------------- initialize
\* preset defaults: (permanent delegate, transfer hook, default frozen)
PresetDefaults(preset) ==
    IF preset = 2 THEN <<TRUE, TRUE, TRUE>> ELSE <<TRUE, FALSE, FALSE>>

unwrap_or(o, d) == IF IsSome(o) THEN Unwrap(o) ELSE d

\* the handler's argument checks
initialize_args_result(args) ==
    IF ~(args.preset >= 1 /\ args.preset <= 3) THEN "InvalidPreset"
    ELSE IF ~(args.name <= 32) THEN "NameTooLong"
    ELSE IF ~(args.symbol <= 10) THEN "SymbolTooLong"
    ELSE IF ~(args.uri <= 200) THEN "UriTooLong"
    ELSE "Ok"

\* variant: the accounts are created if needed, existing ones are accepted
initialize_result_Reinit(authority, t, args) == initialize_args_result(args)

\* outcome of the whole request; `init` of the config account fails when the
\* account exists already
initialize_result(authority, t, args) ==
    IF ConfigLoaded(t) THEN "AccountAlreadyInUse"
    ELSE IF RoleLoaded(RolePda(ConfigPda(t), authority, Admin)) THEN "AccountAlreadyInUse"
    ELSE initialize_args_result(args)

\* admin_count of a freshly initialized configuration: handler_initialize
\* assigns every field of the zero-initialized account but admin_count.
InitialAdminCount == 0

\* the configuration handler_initialize writes
InitialConfig(authority, t, args) ==
    [ authority |-> authority,
      mint |-> t,
      preset |-> args.preset,
      paused |-> FALSE,
      supply_cap |-> args.supply_cap,
      total_minted |-> 0,
      total_burned |-> 0,
      name |-> args.name,
      symbol |-> args.symbol,
      uri |-> args.uri,
      decimals |-> args.decimals,
      enable_permanent_delegate |-> unwrap_or(args.enable_permanent_delegate, PresetDefaults(args.preset)[1]),
      enable_transfer_hook |-> unwrap_or(args.enable_transfer_hook, PresetDefaults(args.preset)[2]),
      default_account_frozen |-> unwrap_or(args.default_account_frozen, PresetDefaults(args.preset)[3]),
      admin_count |-> InitialAdminCount ]

\* variant: a new record starts with a quota of zero
NewRole_ZeroQuota(t, holder, role) ==
    [ config |-> ConfigPda(t),
      address |-> holder,
      role |-> role,
      mint_quota |-> Some(0),
      amount_minted |-> 0 ]

\* a RoleAccount as the handlers write it (granted_by, granted_at and bump
\* are written once and read by no handler; they are left out)
NewRole(t, holder, role) ==
    [ config |-> ConfigPda(t),
      address |-> holder,
      role |-> role,
      mint_quota |-> None,
      amount_minted |-> 0 ]

handler_initialize(authority, t, args) ==
    LET res == initialize_result(authority, t, args) IN
    IF res # "Ok" THEN Fail("initialize", t, authority, res)
    ELSE /\ config' = Put(config, t, InitialConfig(authority, t, args))
         /\ roles' = Put(roles, RolePda(ConfigPda(t), authority, Admin),
                          NewRole(t, authority, Admin))
         /\ last' = Req("initialize", t, authority, "Ok")
         /\ UNCHANGED <<mint_decimals, bal, frozen, sum_minted, sum_burned, blacklist>>

\* --------------------------------------------------------------- grant_role
\* role byte -> Role, or InvalidRole
role_enum(role) == IF role \in Role THEN Some(role) ELSE None

\* the admin_count a grant of `role` writes (None: the checked_add overflowed)
grant_admin_count(c, role) ==
    IF role = Admin THEN checked_add(c.admin_count, 1, U32_MAX) ELSE Some(c.admin_count)

\* variant: GrantRole with the pause constraint of the ledger operations
grant_result_Pausable(admin, t, ra, grantee, role) ==
    IF ~ConfigLoaded(t) THEN "AccountNotInitialized"
    ELSE IF ~RoleLoaded(ra) THEN "AccountNotInitialized"
    ELSE IF RoleLoaded(RolePda(ConfigPda(t), grantee, role)) THEN "AccountAlreadyInUse"
    ELSE IF ~NotPausedConstraint(config[t]) THEN "Paused"
    ELSE IF ~RoleSeedsOk(ra, t, admin, Admin) THEN "ConstraintSeeds"
    ELSE IF ~IsSome(role_enum(role)) THEN "InvalidRole"
    ELSE IF ~IsSome(grant_admin_count(config[t], role)) THEN "ArithmeticOverflow"
    ELSE "Ok"

\* variant: role_account created if needed, an existing one accepted
grant_result_Overwrite(admin, t, ra, grantee, role) ==
    IF ~ConfigLoaded(t) THEN "AccountNotInitialized"
    ELSE IF ~RoleLoaded(ra) THEN "AccountNotInitialized"
    ELSE IF ~RoleSeedsOk(ra, t, admin, Admin) THEN "ConstraintSeeds"
    ELSE IF ~IsSome(role_enum(role)) THEN "InvalidRole"
    ELSE IF ~IsSome(grant_admin_count(config[t], role)) THEN "ArithmeticOverflow"
    ELSE "Ok"

\* variant: admin_role without its seeds constraint
grant_result_NoSeeds(admin, t, ra, grantee, role) ==
    IF ~ConfigLoaded(t) THEN "AccountNotInitialized"
    ELSE IF ~RoleLoaded(ra) THEN "AccountNotInitialized"
    ELSE IF RoleLoaded(RolePda(ConfigPda(t), grantee, role)) THEN "AccountAlreadyInUse"
    ELSE IF ~IsSome(role_enum(role)) THEN "InvalidRole"
    ELSE IF ~IsSome(grant_admin_count(config[t], role)) THEN "ArithmeticOverflow"
    ELSE "Ok"

grant_result(admin, t, ra, grantee, role) ==
    IF ~ConfigLoaded(t) THEN "AccountNotInitialized"
    ELSE IF ~RoleLoaded(ra) THEN "AccountNotInitialized"
    \* init role_account at seeds [SSS_ROLE_SEED, config, grantee, &[role]]
    ELSE IF RoleLoaded(RolePda(ConfigPda(t), grantee, role)) THEN "AccountAlreadyInUse"
    ELSE IF ~RoleSeedsOk(ra, t, admin, Admin) THEN "ConstraintSeeds"
    ELSE IF ~IsSome(role_enum(role)) THEN "InvalidRole"
    ELSE IF ~IsSome(grant_admin_count(config[t], role)) THEN "ArithmeticOverflow"
    ELSE "Ok"

handler_grant(admin, t, ra, grantee, role) ==
    LET res == grant_result(admin, t, ra, grantee, role) IN
    IF res # "Ok" THEN Fail("grant_role", t, admin, res)
    ELSE /\ config' = [config EXCEPT ![t].admin_count = Unwrap(grant_admin_count(config[t], role))]
         /\ roles' = Put(roles, RolePda(ConfigPda(t), grantee, role),
                          NewRole(t, grantee, role))
         /\ last' = Req("grant_role", t, admin, "Ok")
         /\ UNCHANGED <<mint_decimals, bal, frozen, sum_minted, sum_burned, blacklist>>

\* -------------------------------------------------------------- revoke_role
\* variant: the guard as the handler's comment describes it, refusing only
\* an admin that revokes its own record
revoke_result_SelfOnly(admin, t, ra, target) ==
    IF ~ConfigLoaded(t) THEN "AccountNotInitialized"
    ELSE IF ~RoleLoaded(ra) THEN "AccountNotInitialized"
    ELSE IF ~RoleLoaded(target) THEN "AccountNotInitialized"
    ELSE IF ~RoleSeedsOk(ra, t, admin, Admin) THEN "ConstraintSeeds"
    ELSE IF ~(roles[target].config = ConfigPda(t)) THEN "ConstraintRaw"
    ELSE IF roles[target].role = Admin /\ target = ra /\ ~(config[t].admin_count > 1) THEN "LastAdmin"
    ELSE IF roles[target].role = Admin /\ ~IsSome(checked_sub(config[t].admin_count, 1))
         THEN "ArithmeticOverflow"
    ELSE "Ok"

\* variant: the target record is not compared with the config presented
revoke_result_AnyConfig(admin, t, ra, target) ==
    IF ~ConfigLoaded(t) THEN "AccountNotInitialized"
    ELSE IF ~RoleLoaded(ra) THEN "AccountNotInitialized"
    ELSE IF ~RoleLoaded(target) THEN "AccountNotInitialized"
    ELSE IF ~RoleSeedsOk(ra, t, admin, Admin) THEN "ConstraintSeeds"
    ELSE IF roles[target].role = Admin /\ ~(config[t].admin_count > 1) THEN "LastAdmin"
    ELSE IF roles[target].role = Admin /\ ~IsSome(checked_sub(config[t].admin_count, 1))
         THEN "ArithmeticOverflow"
    ELSE "Ok"

\* variant: no last-admin guard
LastAdminCheck_Absent(c) == TRUE

\* require!(config.admin_count > 1, LastAdmin), for an Admin target
LastAdminCheck(c) == c.admin_count > 1

revoke_result(admin, t, ra, target) ==
    IF ~ConfigLoaded(t) THEN "AccountNotInitialized"
    ELSE IF ~RoleLoaded(ra) THEN "AccountNotInitialized"
    ELSE IF ~RoleLoaded(target) THEN "AccountNotInitialized"
    ELSE IF ~RoleSeedsOk(ra, t, admin, Admin) THEN "ConstraintSeeds"
    \* constraint = role_account.config == config.key()
    ELSE IF ~(roles[target].config = ConfigPda(t)) THEN "ConstraintRaw"
    ELSE IF roles[target].role = Admin /\ ~LastAdminCheck(config[t]) THEN "LastAdmin"
    ELSE IF roles[target].role = Admin /\ ~IsSome(checked_sub(config[t].admin_count, 1))
         THEN "ArithmeticOverflow"
    ELSE "Ok"

\* variant: revoking a record also deletes the deny-list entries its holder added
handler_revoke_Purging(admin, t, ra, target) ==
    LET res == revoke_result(admin, t, ra, target) IN
    IF res # "Ok" THEN Fail("revoke_role", t, admin, res)
    ELSE /\ config' = IF roles[target].role = Admin
                      THEN [config EXCEPT ![t].admin_count = Unwrap(checked_sub(@, 1))]
                      ELSE config
         /\ roles' = Del(roles, target)
         /\ blacklist' = [e \in {b \in DOMAIN blacklist : blacklist[b].added_by # roles[target].address}
                            |-> blacklist[e]]
         /\ last' = Req("revoke_role", t, admin, "Ok")
         /\ UNCHANGED <<mint_decimals, bal, frozen, sum_minted, sum_burned>>

handler_revoke(admin, t, ra, target) ==
    LET res == revoke_result(admin, t, ra, target) IN
    IF res # "Ok" THEN Fail("revoke_role", t, admin, res)
    ELSE /\ config' = IF roles[target].role = Admin
                      THEN [config EXCEPT ![t].admin_count = Unwrap(checked_sub(@, 1))]
                      ELSE config
         \* close = admin
         /\ roles' = Del(roles, target)
         /\ last' = Req("revoke_role", t, admin, "Ok")
         /\ UNCHANGED <<mint_decimals, bal, frozen, sum_minted, sum_burned, blacklist>>

\* ------------------------------------------------------- transfer_authority
transfer_authority_result(admin, t, ra, new_authority) ==
    IF ~ConfigLoaded(t) THEN "AccountNotInitialized"
    ELSE IF ~RoleLoaded(ra) THEN "AccountNotInitialized"
    \* init new_admin_role at seeds [SSS_ROLE_SEED, config, new_authority, &[Admin]]
    ELSE IF RoleLoaded(RolePda(ConfigPda(t), new_authority, Admin)) THEN "AccountAlreadyInUse"
    ELSE IF ~RoleSeedsOk(ra, t, admin, Admin) THEN "ConstraintSeeds"
    ELSE "Ok"

\* variant: the caller's admin_role is not closed
handler_transfer_authority_KeepOld(admin, t, ra, new_authority) ==
    LET res == transfer_authority_result(admin, t, ra, new_authority) IN
    IF res # "Ok" THEN Fail("transfer_authority", t, admin, res)
    ELSE /\ config' = [config EXCEPT ![t].authority = new_authority]
         /\ roles' = Put(roles, RolePda(ConfigPda(t), new_authority, Admin),
                          NewRole(t, new_authority, Admin))
         /\ last' = Req("transfer_authority", t, admin, "Ok")
         /\ UNCHANGED <<mint_decimals, bal, frozen, sum_minted, sum_burned, blacklist>>

handler_transfer_authority(admin, t, ra, new_authority) ==
    LET res == transfer_authority_result(admin, t, ra, new_authority) IN
    IF res # "Ok" THEN Fail("transfer_authority", t, admin, res)
    ELSE /\ config' = [config EXCEPT ![t].authority = new_authority]
         \* new_admin_role is written, admin_role is closed (close = admin)
         /\ roles' = Del(Put(roles, RolePda(ConfigPda(t), new_authority, Admin),
                              NewRole(t, new_authority, Admin)), ra)
         /\ last' = Req("transfer_authority", t, admin, "Ok")
         /\ UNCHANGED <<mint_decimals, bal, frozen, sum_minted, sum_burned, blacklist>>

\* -------------------------------------------------------- update_supply_cap
\* variant: the new cap compared with total_minted instead of current_supply()
update_supply_cap_result_Minted(admin, t, ra, new_supply_cap) ==
    IF RoleGate(t, admin, ra, Admin) # "Ok" THEN RoleGate(t, admin, ra, Admin)
    ELSE IF IsSome(new_supply_cap) /\ ~(Unwrap(new_supply_cap) >= config[t].total_minted)
         THEN "InvalidSupplyCap"
    ELSE "Ok"

update_supply_cap_result(admin, t, ra, new_supply_cap) ==
    IF RoleGate(t, admin, ra, Admin) # "Ok" THEN RoleGate(t, admin, ra, Admin)
    ELSE IF IsSome(new_supply_cap) /\ ~(Unwrap(new_supply_cap) >= current_supply(config[t]))
         THEN "InvalidSupplyCap"
    ELSE "Ok"

handler_update_supply_cap(admin, t, ra, new_supply_cap) ==
    LET res == update_supply_cap_result(admin, t, ra, new_supply_cap) IN
    IF res # "Ok" THEN Fail("update_supply_cap", t, admin, res)
    ELSE /\ config' = [config EXCEPT ![t].supply_cap = new_supply_cap]
         /\ last' = Req("update_supply_cap", t, admin, "Ok")
         /\ UNCHANGED <<roles, mint_decimals, bal, frozen, sum_minted, sum_burned, blacklist>>

\* ------------------------------------------------------------ update_minter
update_minter_result(admin, t, ra, minter_role) ==
    IF ~ConfigLoaded(t) THEN "AccountNotInitialized"
    ELSE IF ~RoleLoaded(ra) THEN "AccountNotInitialized"
    ELSE IF ~RoleLoaded(minter_role) THEN "AccountNotInitialized"
    ELSE IF ~RoleSeedsOk(ra, t, admin, Admin) THEN "ConstraintSeeds"
    \* constraint = minter_role.config == config.key()
    ELSE IF ~(roles[minter_role].config = ConfigPda(t)) THEN "ConstraintRaw"
    \* constraint = minter_role.role == Role::Minter
    ELSE IF ~(roles[minter_role].role = Minter) THEN "ConstraintRaw"
    ELSE "Ok"

\* variant: the new quota starts a fresh count
handler_update_minter_Reset(admin, t, ra, minter_role, new_quota) ==
    LET res == update_minter_result(admin, t, ra, minter_role) IN
    IF res # "Ok" THEN Fail("update_minter", t, admin, res)
    ELSE /\ roles' = [roles EXCEPT ![minter_role].mint_quota = new_quota,
                                   ![minter_role].amount_minted = 0]
         /\ last' = Req("update_minter", t, admin, "Ok")
         /\ UNCHANGED <<config, mint_decimals, bal, frozen, sum_minted, sum_burned, blacklist>>

handler_update_minter(admin, t, ra, minter_role, new_quota) ==
    LET res == update_minter_result(admin, t, ra, minter_role) IN
    IF res # "Ok" THEN Fail("update_minter", t, admin, res)
    ELSE /\ roles' = [roles EXCEPT ![minter_role].mint_quota = new_quota]
         /\ last' = Req("update_minter", t, admin, "Ok")
         /\ UNCHANGED <<config, mint_decimals, bal, frozen, sum_minted, sum_burned, blacklist>>

\* ------------------------------------------------------------ pause/unpause
\* variant: pause without the `!config.paused` constraint
pause_result_Repeatable(pauser, t, ra) == RoleGate(t, pauser, ra, Pauser)

pause_result(pauser, t, ra) == PausableRoleGate(t, pauser, ra, Pauser)

handler_pause(pauser, t, ra) ==
    LET res == pause_result(pauser, t, ra) IN
    IF res # "Ok" THEN Fail("pause", t, pauser, res)
    ELSE /\ config' = [config EXCEPT ![t].paused = TRUE]
         /\ last' = Req("pause", t, pauser, "Ok")
         /\ UNCHANGED <<roles, mint_decimals, bal, frozen, sum_minted, sum_burned, blacklist>>

\* constraint = config.paused @ SssError::NotPaused
unpause_result(pauser, t, ra) ==
    IF ~ConfigLoaded(t) THEN "AccountNotInitialized"
    ELSE IF ~RoleLoaded(ra) THEN "AccountNotInitialized"
    ELSE IF ~config[t].paused THEN "NotPaused"
    ELSE IF ~RoleSeedsOk(ra, t, pauser, Pauser) THEN "ConstraintSeeds"
    ELSE "Ok"

handler_unpause(pauser, t, ra) ==
    LET res == unpause_result(pauser, t, ra) IN
    IF res # "Ok" THEN Fail("unpause", t, pauser, res)
    ELSE /\ config' = [config EXCEPT ![t].paused = FALSE]
         /\ last' = Req("unpause", t, pauser, "Ok")
         /\ UNCHANGED <<roles, mint_decimals, bal, frozen, sum_minted, sum_burned, blacklist>>

\* ---------------------------------------------------------- external ledger
\* The token ledger (Token-2022) the handlers call by CPI.  The mint is set up
\* with the config PDA as mint authority, freeze authority and permanent
\* delegate; the ledger credits and debits balances, refuses a frozen
\* account and refuses a debit that exceeds the balance.
RECURSIVE SumOver(_, _)
SumOver(f, S) == IF S = {} THEN 0
                 ELSE LET a == CHOOSE a \in S : TRUE IN f[a] + SumOver(f, S \ {a})
ledger_supply(t) == SumOver(bal[t], Accts)

\* token_interface::mint_to
mint_to_result(t, to, amount) ==
    IF frozen[t][to] THEN "AccountFrozen"
    ELSE IF ledger_supply(t) + amount > U64_MAX THEN "Overflow"
    ELSE "Ok"

\* the ledger's sufficient-balance check on a debit
has_funds(t, from, amount) == bal[t][from] >= amount

\* token_interface::burn
burn_result(t, from, amount) ==
    IF frozen[t][from] THEN "AccountFrozen"
    ELSE IF ~has_funds(t, from, amount) THEN "InsufficientFunds"
    ELSE "Ok"

\* token_interface::transfer_checked
transfer_checked_result(t, from, to, amount) ==
    IF frozen[t][from] \/ frozen[t][to] THEN "AccountFrozen"
    ELSE IF ~has_funds(t, from, amount) THEN "InsufficientFunds"
    ELSE "Ok"

\* token_interface::freeze_account / thaw_account
freeze_account_result(t, a) == IF frozen[t][a] THEN "InvalidState" ELSE "Ok"
thaw_account_result(t, a) == IF ~frozen[t][a] THEN "InvalidState" ELSE "Ok"

\* --------------------------------------------------------- oracle converter
ORACLE_MAX_AGE_SECS == 120

\* A price update account as a mint request presents it: whether the Pyth
\* receiver program owns it, whether its feed id equals the all-zero id the
\* handler asks for, the quote's age in seconds, its price and exponent.
NoPrice == None

\* 10u128.pow(n): unchecked.  On overflow a build with overflow checks panics
\* (None), a build without wraps modulo 2^128.
pow10(n, overflow_checks) ==
    IF 10 ^ n <= U128_MAX THEN Some(10 ^ n)
    ELSE IF overflow_checks THEN None
    ELSE Some((10 ^ n) % (U128_MAX + 1))

\* u128::checked_mul / checked_div
checked_mul(a, b) == IF a * b <= U128_MAX THEN Some(a * b) ELSE None
checked_div(a, b) == IF b = 0 THEN None ELSE Some(a \div b)

Min(a, b) == IF a <= b THEN a ELSE b

OracleOk(cap) == [err |-> "Ok", cap |-> cap]
OracleErr(e) == [err |-> e, cap |-> None]

\* variant: a quote aged exactly the maximum is refused
get_price_no_older_than_Strict(pu) == pu.feed_ok /\ pu.age < ORACLE_MAX_AGE_SECS

\* price_update.get_price_no_older_than(&clock, ORACLE_MAX_AGE_SECS, &feed_id)
get_price_no_older_than(pu) == pu.feed_ok /\ pu.age <= ORACLE_MAX_AGE_SECS

\* variant: a negative exponent handled like a positive one
oracle_cap_neg_expo_Divides(cap, pu, decimals_pow, overflow_checks) ==
    LET ep == pow10(-pu.expo, overflow_checks)
        numerator == checked_mul(cap, decimals_pow)
    IN IF ~IsSome(ep) THEN OracleErr("ProgramPanicked")
       ELSE IF ~IsSome(numerator) THEN OracleErr("ArithmeticOverflow")
       ELSE IF ~IsSome(checked_mul(pu.price, Unwrap(ep))) THEN OracleErr("ArithmeticOverflow")
       ELSE IF ~IsSome(checked_div(Unwrap(numerator), Unwrap(checked_mul(pu.price, Unwrap(ep)))))
            THEN OracleErr("ArithmeticOverflow")
       ELSE OracleOk(checked_div(Unwrap(numerator), Unwrap(checked_mul(pu.price, Unwrap(ep)))))

\* the conversion for a negative exponent
oracle_cap_neg_expo(cap, pu, decimals_pow, overflow_checks) ==
    LET m1 == checked_mul(cap, decimals_pow)
        ep == pow10(-pu.expo, overflow_checks)
    IN IF ~IsSome(m1) THEN OracleErr("ArithmeticOverflow")
       ELSE IF ~IsSome(ep) THEN OracleErr("ProgramPanicked")
       ELSE IF ~IsSome(checked_mul(Unwrap(m1), Unwrap(ep))) THEN OracleErr("ArithmeticOverflow")
       ELSE IF ~IsSome(checked_div(Unwrap(checked_mul(Unwrap(m1), Unwrap(ep))), pu.price))
            THEN OracleErr("ArithmeticOverflow")
       ELSE OracleOk(checked_div(Unwrap(checked_mul(Unwrap(m1), Unwrap(ep))), pu.price))

\* the conversion for an exponent >= 0
oracle_cap_pos_expo(cap, pu, decimals_pow, overflow_checks) ==
    LET ep == pow10(pu.expo, overflow_checks)
        numerator == checked_mul(cap, decimals_pow)
    IN IF ~IsSome(ep) THEN OracleErr("ProgramPanicked")
       ELSE IF ~IsSome(numerator) THEN OracleErr("ArithmeticOverflow")
       ELSE IF ~IsSome(checked_mul(pu.price, Unwrap(ep))) THEN OracleErr("ArithmeticOverflow")
       ELSE IF ~IsSome(checked_div(Unwrap(numerator), Unwrap(checked_mul(pu.price, Unwrap(ep)))))
            THEN OracleErr("ArithmeticOverflow")
       ELSE OracleOk(checked_div(Unwrap(numerator), Unwrap(checked_mul(pu.price, Unwrap(ep)))))

\* variant: the quote is read before the cap is looked at
adjust_cap_with_oracle_QuoteFirst(usd_cap, pu, decimals, overflow_checks) ==
    IF ~get_price_no_older_than(pu) THEN OracleErr("OraclePriceStale")
    ELSE IF ~(pu.price > 0) THEN OracleErr("InvalidOraclePrice")
    ELSE IF ~IsSome(usd_cap) THEN OracleOk(None)
    ELSE IF ~IsSome(pow10(decimals, overflow_checks)) THEN OracleErr("ProgramPanicked")
    ELSE LET decimals_pow == Unwrap(pow10(decimals, overflow_checks))
             token_cap == IF pu.expo < 0
                          THEN oracle_cap_neg_expo(Unwrap(usd_cap), pu, decimals_pow, overflow_checks)
                          ELSE oracle_cap_pos_expo(Unwrap(usd_cap), pu, decimals_pow, overflow_checks)
         IN IF token_cap.err # "Ok" THEN token_cap
            ELSE OracleOk(Some(Min(Unwrap(token_cap.cap), U64_MAX)))

\* variant: a converted cap over 64 bits is an error instead of being clamped
adjust_cap_with_oracle_FailClosed(usd_cap, pu, decimals, overflow_checks) ==
    IF ~IsSome(usd_cap) THEN OracleOk(None)
    ELSE IF ~get_price_no_older_than(pu) THEN OracleErr("OraclePriceStale")
    ELSE IF ~(pu.price > 0) THEN OracleErr("InvalidOraclePrice")
    ELSE IF ~IsSome(pow10(decimals, overflow_checks)) THEN OracleErr("ProgramPanicked")
    ELSE LET decimals_pow == Unwrap(pow10(decimals, overflow_checks))
             token_cap == IF pu.expo < 0
                          THEN oracle_cap_neg_expo(Unwrap(usd_cap), pu, decimals_pow, overflow_checks)
                          ELSE oracle_cap_pos_expo(Unwrap(usd_cap), pu, decimals_pow, overflow_checks)
         IN IF token_cap.err # "Ok" THEN token_cap
            ELSE IF Unwrap(token_cap.cap) > U64_MAX THEN OracleErr("ArithmeticOverflow")
            ELSE OracleOk(token_cap.cap)

\* adjust_cap_with_oracle: [err, cap] with cap the effective cap (an Option)
adjust_cap_with_oracle(usd_cap, pu, decimals, overflow_checks) ==
    IF ~IsSome(usd_cap) THEN OracleOk(None)
    ELSE IF ~get_price_no_older_than(pu) THEN OracleErr("OraclePriceStale")
    ELSE IF ~(pu.price > 0) THEN OracleErr("InvalidOraclePrice")
    ELSE IF ~IsSome(pow10(decimals, overflow_checks)) THEN OracleErr("ProgramPanicked")
    ELSE LET decimals_pow == Unwrap(pow10(decimals, overflow_checks))
             token_cap == IF pu.expo < 0
                          THEN oracle_cap_neg_expo(Unwrap(usd_cap), pu, decimals_pow, overflow_checks)
                          ELSE oracle_cap_pos_expo(Unwrap(usd_cap), pu, decimals_pow, overflow_checks)
         IN IF token_cap.err # "Ok" THEN token_cap
            \* token_cap.min(u64::MAX as u128) as u64
            ELSE OracleOk(Some(Min(Unwrap(token_cap.cap), U64_MAX)))

\* -------------------------------------------------------------- mint_tokens
\* MintTokens account validation.  price_update is NoPrice or a price update
\* account; Account<PriceUpdateV2> must be owned by the Pyth receiver.
mint_accounts_result(minter, t, ra, price_update) ==
    IF ~ConfigLoaded(t) THEN "AccountNotInitialized"
    ELSE IF ~RoleLoaded(ra) THEN "AccountNotInitialized"
    ELSE IF IsSome(price_update) /\ ~Unwrap(price_update).owner_ok THEN "AccountOwnedByWrongProgram"
    ELSE IF ~NotPausedConstraint(config[t]) THEN "Paused"
    ELSE IF ~RoleSeedsOk(ra, t, minter, Minter) THEN "ConstraintSeeds"
    ELSE "Ok"

\* variant: the quota itself cannot be reached
quota_result_Strict(role, amount) ==
    IF ~IsSome(role.mint_quota) THEN "Ok"
    ELSE IF ~IsSome(checked_add(role.amount_minted, amount, U64_MAX)) THEN "ArithmeticOverflow"
    ELSE IF ~(Unwrap(checked_add(role.amount_minted, amount, U64_MAX)) < Unwrap(role.mint_quota))
         THEN "QuotaExceeded"
    ELSE "Ok"

\* per-minter quota check
quota_result(role, amount) ==
    IF ~IsSome(role.mint_quota) THEN "Ok"
    ELSE IF ~IsSome(checked_add(role.amount_minted, amount, U64_MAX)) THEN "ArithmeticOverflow"
    ELSE IF ~(Unwrap(checked_add(role.amount_minted, amount, U64_MAX)) <= Unwrap(role.mint_quota))
         THEN "QuotaExceeded"
    ELSE "Ok"

\* effective cap: oracle-adjusted when a price update is passed, else raw
effective_cap(c, price_update, decimals, overflow_checks) ==
    IF IsSome(price_update)
    THEN adjust_cap_with_oracle(c.supply_cap, Unwrap(price_update), decimals, overflow_checks)
    ELSE OracleOk(c.supply_cap)

\* variant: the cap itself cannot be reached
cap_check_result_Strict(c, cap, amount) ==
    IF IsSome(cap)
    THEN IF ~IsSome(checked_add(current_supply(c), amount, U64_MAX)) THEN "ArithmeticOverflow"
         ELSE IF ~(Unwrap(checked_add(current_supply(c), amount, U64_MAX)) < Unwrap(cap))
              THEN "SupplyCapExceeded"
         ELSE "Ok"
    ELSE IF ~IsSome(checked_add(current_supply(c), amount, U64_MAX)) THEN "SupplyCapExceeded"
         ELSE "Ok"

\* the supply cap check against the effective cap `cap`
cap_check_result(c, cap, amount) ==
    IF IsSome(cap)
    THEN IF ~IsSome(checked_add(current_supply(c), amount, U64_MAX)) THEN "ArithmeticOverflow"
         ELSE IF ~(Unwrap(checked_add(current_supply(c), amount, U64_MAX)) <= Unwrap(cap))
              THEN "SupplyCapExceeded"
         ELSE "Ok"
    ELSE IF ~IsSome(checked_add(current_supply(c), amount, U64_MAX)) THEN "SupplyCapExceeded"
         ELSE "Ok"

\* variant: wrapping instead of checked addition
new_total_minted_Wrapping(c, amount) == Some((c.total_minted + amount) % (U64_MAX + 1))

\* config.total_minted.checked_add(amount)
new_total_minted(c, amount) == checked_add(c.total_minted, amount, U64_MAX)

\* outcome of the whole mint request
mint_result(minter, t, ra, to, amount, price_update, overflow_checks) ==
    IF mint_accounts_result(minter, t, ra, price_update) # "Ok"
    THEN mint_accounts_result(minter, t, ra, price_update)
    ELSE IF ~(amount > 0) THEN "ZeroAmount"
    ELSE IF quota_result(roles[ra], amount) # "Ok" THEN quota_result(roles[ra], amount)
    ELSE LET ec == effective_cap(config[t], price_update, mint_decimals[t], overflow_checks) IN
         IF ec.err # "Ok" THEN ec.err
         ELSE IF cap_check_result(config[t], ec.cap, amount) # "Ok"
              THEN cap_check_result(config[t], ec.cap, amount)
         ELSE IF ~IsSome(new_total_minted(config[t], amount)) THEN "ArithmeticOverflow"
         ELSE IF mint_to_result(t, to, amount) # "Ok" THEN mint_to_result(t, to, amount)
         ELSE IF ~IsSome(checked_add(roles[ra].amount_minted, amount, U64_MAX))
              THEN "ArithmeticOverflow"
         ELSE "Ok"

\* variant: the increment of total_minted survives a failed ledger credit
handler_mint_tokens_NoRollback(minter, t, ra, to, amount, price_update, overflow_checks) ==
    LET res == mint_result(minter, t, ra, to, amount, price_update, overflow_checks) IN
    IF res \in {"AccountFrozen", "Overflow"}
    THEN /\ config' = [config EXCEPT ![t].total_minted = Unwrap(new_total_minted(config[t], amount))]
         /\ last' = Req("mint", t, minter, res)
         /\ UNCHANGED <<roles, mint_decimals, bal, frozen, sum_minted, sum_burned, blacklist>>
    ELSE IF res # "Ok" THEN Fail("mint", t, minter, res)
    ELSE /\ config' = [config EXCEPT ![t].total_minted = Unwrap(new_total_minted(config[t], amount))]
         /\ roles' = [roles EXCEPT ![ra].amount_minted =
                          Unwrap(checked_add(@, amount, U64_MAX))]
         /\ bal' = [bal EXCEPT ![t][to] = @ + amount]
         /\ sum_minted' = [sum_minted EXCEPT ![t] = @ + amount]
         /\ last' = Req("mint", t, minter, "Ok")
         /\ UNCHANGED <<mint_decimals, frozen, sum_burned, blacklist>>

\* variant: a successful mint does not publish its increments (the counters
\* another request reads are the ones from before this mint)
handler_mint_tokens_LostUpdate(minter, t, ra, to, amount, price_update, overflow_checks) ==
    LET res == mint_result(minter, t, ra, to, amount, price_update, overflow_checks) IN
    IF res # "Ok" THEN Fail("mint", t, minter, res)
    ELSE /\ bal' = [bal EXCEPT ![t][to] = @ + amount]
         /\ sum_minted' = [sum_minted EXCEPT ![t] = @ + amount]
         /\ last' = Req("mint", t, minter, "Ok")
         /\ UNCHANGED <<config, roles, mint_decimals, frozen, sum_burned, blacklist>>

handler_mint_tokens(minter, t, ra, to, amount, price_update, overflow_checks) ==
    LET res == mint_result(minter, t, ra, to, amount, price_update, overflow_checks) IN
    IF res # "Ok" THEN Fail("mint", t, minter, res)
    ELSE /\ config' = [config EXCEPT ![t].total_minted = Unwrap(new_total_minted(config[t], amount))]
         /\ roles' = [roles EXCEPT ![ra].amount_minted =
                          Unwrap(checked_add(@, amount, U64_MAX))]
         /\ bal' = [bal EXCEPT ![t][to] = @ + amount]
         /\ sum_minted' = [sum_minted EXCEPT ![t] = @ + amount]
         /\ last' = Req("mint", t, minter, "Ok")
         /\ UNCHANGED <<mint_decimals, frozen, sum_burned, blacklist>>

\* -------------------------------------------------------------- burn_tokens
\* variant: the outcome of the burn CPI dropped
burn_cpi_result_Ignored(t, from, amount) == "Ok"

\* the outcome of the burn CPI as the handler takes it (`?`)
burn_cpi_result(t, from, amount) == burn_result(t, from, amount)

burn_tokens_result(burner, t, ra, from, amount) ==
    IF PausableRoleGate(t, burner, ra, Burner) # "Ok" THEN PausableRoleGate(t, burner, ra, Burner)
    ELSE IF ~(amount > 0) THEN "ZeroAmount"
    ELSE IF ~IsSome(checked_add(config[t].total_burned, amount, U64_MAX)) THEN "ArithmeticOverflow"
    ELSE IF burn_cpi_result(t, from, amount) # "Ok" THEN burn_cpi_result(t, from, amount)
    ELSE "Ok"

handler_burn_tokens(burner, t, ra, from, amount) ==
    LET res == burn_tokens_result(burner, t, ra, from, amount) IN
    IF res # "Ok" THEN Fail("burn", t, burner, res)
    ELSE /\ config' = [config EXCEPT ![t].total_burned =
                          Unwrap(checked_add(@, amount, U64_MAX))]
         /\ bal' = [bal EXCEPT ![t][from] = @ - amount]
         /\ sum_burned' = [sum_burned EXCEPT ![t] = @ + amount]
         /\ last' = Req("burn", t, burner, "Ok")
         /\ UNCHANGED <<roles, mint_decimals, frozen, sum_minted, blacklist>>

\* ------------------------------------------------------------- freeze / thaw
freeze_result(freezer, t, ra, a) ==
    IF PausableRoleGate(t, freezer, ra, Freezer) # "Ok" THEN PausableRoleGate(t, freezer, ra, Freezer)
    ELSE freeze_account_result(t, a)

handler_freeze_account(freezer, t, ra, a) ==
    LET res == freeze_result(freezer, t, ra, a) IN
    IF res # "Ok" THEN Fail("freeze", t, freezer, res)
    ELSE /\ frozen' = [frozen EXCEPT ![t][a] = TRUE]
         /\ last' = Req("freeze", t, freezer, "Ok")
         /\ UNCHANGED <<config, roles, mint_decimals, bal, sum_minted, sum_burned, blacklist>>

thaw_result(freezer, t, ra, a) ==
    IF PausableRoleGate(t, freezer, ra, Freezer) # "Ok" THEN PausableRoleGate(t, freezer, ra, Freezer)
    ELSE thaw_account_result(t, a)

handler_thaw_account(freezer, t, ra, a) ==
    LET res == thaw_result(freezer, t, ra, a) IN
    IF res # "Ok" THEN Fail("thaw", t, freezer, res)
    ELSE /\ frozen' = [frozen EXCEPT ![t][a] = FALSE]
         /\ last' = Req("thaw", t, freezer, "Ok")
         /\ UNCHANGED <<config, roles, mint_decimals, bal, sum_minted, sum_burned, blacklist>>

\* -------------------------------------------------------------------- seize
\* variant: Seize with the pause constraint of the other ledger operations
seize_accounts_result_Pausable(cfgs, seizer, t, ra) ==
    IF ~(t \in DOMAIN cfgs) THEN "AccountNotInitialized"
    ELSE IF ~RoleLoaded(ra) THEN "AccountNotInitialized"
    ELSE IF ~NotPausedConstraint(cfgs[t]) THEN "Paused"
    ELSE IF ~RoleSeedsOk(ra, t, seizer, Seizer) THEN "ConstraintSeeds"
    ELSE "Ok"

\* Seize account validation: the config carries no pause constraint
seize_accounts_result(cfgs, seizer, t, ra) ==
    IF ~(t \in DOMAIN cfgs) THEN "AccountNotInitialized"
    ELSE IF ~RoleLoaded(ra) THEN "AccountNotInitialized"
    ELSE IF ~RoleSeedsOk(ra, t, seizer, Seizer) THEN "ConstraintSeeds"
    ELSE "Ok"

\* outcome of the whole seize request against the configuration accounts cfgs
\* variant: a seize is checked against the supply cap like a mint
seize_result_CapChecked(cfgs, seizer, t, ra, from, to, amount) ==
    IF seize_accounts_result(cfgs, seizer, t, ra) # "Ok" THEN seize_accounts_result(cfgs, seizer, t, ra)
    ELSE IF ~(amount > 0) THEN "ZeroAmount"
    ELSE IF cap_check_result(cfgs[t], cfgs[t].supply_cap, amount) # "Ok"
         THEN cap_check_result(cfgs[t], cfgs[t].supply_cap, amount)
    ELSE transfer_checked_result(t, from, to, amount)

seize_result(cfgs, seizer, t, ra, from, to, amount) ==
    IF seize_accounts_result(cfgs, seizer, t, ra) # "Ok" THEN seize_accounts_result(cfgs, seizer, t, ra)
    ELSE IF ~(amount > 0) THEN "ZeroAmount"
    ELSE transfer_checked_result(t, from, to, amount)

handler_seize(seizer, t, ra, from, to, amount) ==
    LET res == seize_result(config, seizer, t, ra, from, to, amount) IN
    IF res # "Ok" THEN Fail("seize", t, seizer, res)
    ELSE /\ bal' = [bal EXCEPT ![t] = [a \in Accts |->
                        bal[t][a] - (IF a = from THEN amount ELSE 0)
                                  + (IF a = to THEN amount ELSE 0)]]
         /\ last' = Req("seize", t, seizer, "Ok")
         /\ UNCHANGED <<config, roles, mint_decimals, frozen, sum_minted, sum_burned, blacklist>>

\* ------------------------------------------------- transfer hook: deny-list
MAX_REASON_LEN == 512

\* seeds = [BLACKLIST_SEED, mint, address]
BlacklistPda(mint, address) == <<mint, address>>
BlacklistAddrs == Tokens \X Holders

\* AccountInfo of the account at a deny-list address as a request sees it:
\* the entry if one exists; else, with `foreign`, an account with data that
\* another program owns; else an empty system account
AccountInfoAt(addr, foreign) ==
    IF addr \in DOMAIN blacklist THEN [data_is_empty |-> FALSE, owner |-> "sss_transfer_hook"]
    ELSE IF foreign THEN [data_is_empty |-> FALSE, owner |-> "other"]
    ELSE [data_is_empty |-> TRUE, owner |-> "system"]

\* AccountInfo::owner of the account presented as blacklister_role: every
\* RoleAccount belongs to sss-core, a missing or closed account to the system
RoleAccountOwner(ra) == IF RoleLoaded(ra) THEN "sss_core" ELSE "system"

\* variant: the owner check alone, no address comparison
verify_blacklister_for_mint_OwnerOnly(blacklister_role, mint_key, authority_key) ==
    RoleAccountOwner(blacklister_role) = "sss_core"

\* verify_blacklister_for_mint: TRUE for Ok, FALSE for Unauthorized
verify_blacklister_for_mint(blacklister_role, mint_key, authority_key) ==
    /\ RoleAccountOwner(blacklister_role) = "sss_core"
    /\ blacklister_role = RolePda(ConfigPda(mint_key), authority_key, Blacklister)

\* AddToBlacklist accounts (init blacklist_entry), then the handler's checks
add_to_blacklist_result(blacklister, t, ra, address, reason_len) ==
    IF BlacklistPda(t, address) \in DOMAIN blacklist THEN "AccountAlreadyInUse"
    ELSE IF ~(reason_len <= MAX_REASON_LEN) THEN "ReasonTooLong"
    ELSE IF ~verify_blacklister_for_mint(ra, t, blacklister) THEN "Unauthorized"
    ELSE "Ok"

\* a BlacklistEntry as the handler writes it (reason as its length;
\* added_at and bump are read by no handler and left out)
NewBlacklistEntry(blacklister, t, address, reason_len) ==
    [mint |-> t, address |-> address, added_by |-> blacklister, reason |-> reason_len]

handler_add_to_blacklist(blacklister, t, ra, address, reason_len) ==
    LET res == add_to_blacklist_result(blacklister, t, ra, address, reason_len) IN
    IF res # "Ok" THEN Fail("add_to_blacklist", t, blacklister, res)
    ELSE /\ blacklist' = Put(blacklist, BlacklistPda(t, address),
                             NewBlacklistEntry(blacklister, t, address, reason_len))
         /\ last' = Req("add_to_blacklist", t, blacklister, "Ok")
         /\ UNCHANGED <<config, roles, mint_decimals, bal, frozen, sum_minted, sum_burned>>

\* RemoveFromBlacklist accounts (blacklist_entry deserialized, its seeds
\* checked against the mint passed), then the handler's check
remove_from_blacklist_result(blacklister, t, ra, entry) ==
    IF ~(entry \in DOMAIN blacklist) THEN "AccountNotInitialized"
    ELSE IF ~(entry = BlacklistPda(t, blacklist[entry].address)) THEN "ConstraintSeeds"
    ELSE IF ~verify_blacklister_for_mint(ra, blacklist[entry].mint, blacklister) THEN "Unauthorized"
    ELSE "Ok"

handler_remove_from_blacklist(blacklister, t, ra, entry) ==
    LET res == remove_from_blacklist_result(blacklister, t, ra, entry) IN
    IF res # "Ok" THEN Fail("remove_from_blacklist", t, blacklister, res)
    \* close = blacklister
    ELSE /\ blacklist' = Del(blacklist, entry)
         /\ last' = Req("remove_from_blacklist", t, blacklister, "Ok")
         /\ UNCHANGED <<config, roles, mint_decimals, bal, frozen, sum_minted, sum_burned>>

\* handler_transfer_hook on the two deny-list accounts passed to it
transfer_hook_result(sender_bl, receiver_bl) ==
    IF ~sender_bl.data_is_empty /\ sender_bl.owner = "sss_transfer_hook" THEN "SenderBlacklisted"
    ELSE IF ~receiver_bl.data_is_empty /\ receiver_bl.owner = "sss_transfer_hook"
         THEN "ReceiverBlacklisted"
    ELSE "Ok"

\* variant: the extra account metas derived without the mint
HookAccounts_NoMint(t, authority, dest_owner, fs, fd) ==
    [sender |-> AccountInfoAt(BlacklistPda("T1", authority), fs),
     receiver |-> AccountInfoAt(BlacklistPda("T1", dest_owner), fd)]

\* the two extra accounts the ledger resolves for a transfer on mint t from
\* the ExtraAccountMetaList: [BLACKLIST_SEED, mint, source authority] and
\* [BLACKLIST_SEED, mint, destination owner]
HookAccounts(t, authority, dest_owner, fs, fd) ==
    [sender |-> AccountInfoAt(BlacklistPda(t, authority), fs),
     receiver |-> AccountInfoAt(BlacklistPda(t, dest_owner), fd)]

\* the gate's verdict on a transfer of mint t as the ledger executes the hook
execute_hook_result(t, authority, dest_owner, fs, fd) ==
    transfer_hook_result(HookAccounts(t, authority, dest_owner, fs, fd).sender,
                         HookAccounts(t, authority, dest_owner, fs, fd).receiver)

\* the hook changes no account: only its verdict is kept
handler_transfer_hook(t, authority, dest_owner, fs, fd) ==
    /\ last' = Req("transfer_hook", t, authority, execute_hook_result(t, authority, dest_owner, fs, fd))
    /\ UNCHANGED <<config, roles, mint_decimals, bal, frozen, sum_minted, sum_burned, blacklist>>

\* ------------------------------------------------------------ environment
\* The requests clients submit, with their inputs drawn from small sets.

\* number of role accounts the payers' rent budget allows to exist at once
MaxRoleAccounts == 3

\* the role accounts a signer presents for a role-gated request: the record
\* derived for (token, signer, role) or another holder's record of that role
Presented(t, signer, role) ==
    {RolePda(ConfigPda(t), h, role) : h \in {"h1", "h2"}}

\* initialize arguments: valid ones, and ones wrong in one way
InitializeArgs(caps) ==
    { args \in [ preset : {0, 1}, name : {32, 33}, symbol : {10, 11}, uri : {200, 201},
                  decimals : {0}, supply_cap : caps,
                  enable_permanent_delegate : {None}, enable_transfer_hook : {None},
                  default_account_frozen : {None} ] :
        (IF args.preset = 0 THEN 1 ELSE 0) + (IF args.name = 33 THEN 1 ELSE 0)
          + (IF args.symbol = 11 THEN 1 ELSE 0) + (IF args.uri = 201 THEN 1 ELSE 0) <= 1 }

PriceUpdate(owner_ok, feed_ok, age, price, expo) ==
    [owner_ok |-> owner_ok, feed_ok |-> feed_ok, age |-> age, price |-> price, expo |-> expo]

\* price updates a minter presents: none, fresh ones, and one wrong in each way
PriceUpdates ==
    {NoPrice}
    \cup {Some(PriceUpdate(TRUE, TRUE, ORACLE_MAX_AGE_SECS, p, e)) : p \in {1, MaxPrice}, e \in {-MaxExpo, 0}}
    \cup {Some(PriceUpdate(FALSE, TRUE, 0, 1, 0)),
          Some(PriceUpdate(TRUE, FALSE, 0, 1, 0)),
          Some(PriceUpdate(TRUE, TRUE, ORACLE_MAX_AGE_SECS + 1, 1, 0)),
          Some(PriceUpdate(TRUE, TRUE, 0, 0, 0)),
          \* an exponent whose power of ten exceeds the 128-bit width
          Some(PriceUpdate(TRUE, TRUE, 0, 1, -(MaxExpo + 1)))}

\* ---- Spec: every request kind against one token; h1 initializes, h2 is
\* ---- granted roles; amounts are zero or the whole supply
SpecTokens == {"T1"}
SpecHolders == {"h1", "h2"}
SpecAmounts == {0, U64_MAX}
\* the role accounts a revoke targets: every record that exists and one that does not
SpecTargets == (DOMAIN roles) \cup {RolePda(ConfigPda("T1"), "h2", Seizer)}

Initialize == \E a \in {"h1"}, t \in SpecTokens, args \in InitializeArgs({None}) :
    handler_initialize(a, t, args)
GrantRole == \E a \in SpecHolders, t \in SpecTokens, g \in {"h2"}, r \in RoleBytes :
    \E ra \in Presented(t, a, Admin) :
        /\ Cardinality(DOMAIN roles) < MaxRoleAccounts
        /\ handler_grant(a, t, ra, g, r)
RevokeRole == \E a \in SpecHolders, t \in SpecTokens, target \in SpecTargets :
    \E ra \in Presented(t, a, Admin) : handler_revoke(a, t, ra, target)
TransferAuthority == \E a \in SpecHolders, t \in SpecTokens, n \in SpecHolders :
    \E ra \in Presented(t, a, Admin) : handler_transfer_authority(a, t, ra, n)
UpdateSupplyCap == \E a \in SpecHolders, t \in SpecTokens, cap \in {None} :
    \E ra \in Presented(t, a, Admin) : handler_update_supply_cap(a, t, ra, cap)
UpdateMinter == \E a \in SpecHolders, t \in SpecTokens, q \in {None, Some(0)} :
    \E m \in Presented(t, "h2", Minter), ra \in Presented(t, a, Admin) :
        handler_update_minter(a, t, ra, m, q)
Pause == \E a \in SpecHolders, t \in SpecTokens :
    \E ra \in Presented(t, a, Pauser) : handler_pause(a, t, ra)
Unpause == \E a \in SpecHolders, t \in SpecTokens :
    \E ra \in Presented(t, a, Pauser) : handler_unpause(a, t, ra)
SpecPriceUpdates ==
    {NoPrice, Some(PriceUpdate(FALSE, TRUE, 0, 1, 0)), Some(PriceUpdate(TRUE, TRUE, 0, 1, 0))}
MintTokens == \E a \in SpecHolders, t \in SpecTokens, to \in {"x"}, amount \in SpecAmounts :
    \E ra \in Presented(t, a, Minter), pu \in SpecPriceUpdates :
        handler_mint_tokens(a, t, ra, to, amount, pu, TRUE)
BurnTokens == \E a \in SpecHolders, t \in SpecTokens, from \in {"x"}, amount \in SpecAmounts :
    \E ra \in Presented(t, a, Burner) : handler_burn_tokens(a, t, ra, from, amount)
FreezeTokenAccount == \E a \in SpecHolders, t \in SpecTokens, acct \in {"x"} :
    \E ra \in Presented(t, a, Freezer) : handler_freeze_account(a, t, ra, acct)
ThawTokenAccount == \E a \in SpecHolders, t \in SpecTokens, acct \in {"x"} :
    \E ra \in Presented(t, a, Freezer) : handler_thaw_account(a, t, ra, acct)
Seize == \E a \in SpecHolders, t \in SpecTokens, ft \in {<<"x", "y">>, <<"y", "x">>}, amount \in SpecAmounts :
    \E ra \in Presented(t, a, Seizer) : handler_seize(a, t, ra, ft[1], ft[2], amount)
AddToBlacklist == \E a \in SpecHolders, t \in SpecTokens, x \in {"h3"} :
    \E ra \in Presented(t, a, Blacklister), reason \in {MAX_REASON_LEN, MAX_REASON_LEN + 1} :
        handler_add_to_blacklist(a, t, ra, x, reason)
RemoveFromBlacklist == \E a \in SpecHolders, t \in SpecTokens, x \in {"h3"} :
    \E ra \in Presented(t, a, Blacklister) :
        handler_remove_from_blacklist(a, t, ra, BlacklistPda(t, x))
TransferHook == \E t \in SpecTokens, sd \in {<<"h1", "h3">>, <<"h3", "h1">>}, f \in BOOLEAN :
    handler_transfer_hook(t, sd[1], sd[2], f, f)

Next ==
    \/ Initialize
    \/ GrantRole
    \/ RevokeRole
    \/ TransferAuthority
    \/ UpdateSupplyCap
    \/ UpdateMinter
    \/ Pause
    \/ Unpause
    \/ MintTokens
    \/ BurnTokens
    \/ FreezeTokenAccount
    \/ ThawTokenAccount
    \/ Seize
    \/ AddToBlacklist
    \/ RemoveFromBlacklist
    \/ TransferHook

Spec == Init /\ [][Next]_vars

\* ---- SpecSupply: the supply operations of one token with every amount,
\* ---- every cap and the oracle: h1 initializes and administers, h1 and h2
\* ---- are granted Minter, h2 is granted Burner
InitSupply ==
    /\ config = <<>>
    /\ roles = <<>>
    /\ mint_decimals \in {[t \in Tokens |-> d] : d \in 0 .. MaxDecimals}
    /\ bal = [t \in Tokens |-> [a \in Accts |-> 0]]
    /\ frozen = [t \in Tokens |-> [a \in Accts |-> FALSE]]
    /\ sum_minted = [t \in Tokens |-> 0]
    /\ sum_burned = [t \in Tokens |-> 0]
    /\ blacklist = <<>>
    /\ last = NoRequest

SupplyInitializeArgs ==
    [ preset : {1}, name : {32}, symbol : {10}, uri : {200},
      decimals : 0 .. MaxDecimals, supply_cap : OptU64,
      enable_permanent_delegate : {None}, enable_transfer_hook : {None},
      default_account_frozen : {None} ]

\* the client passes the decimals of the mint it created
SupplyInitialize == \E args \in SupplyInitializeArgs :
    /\ args.decimals = mint_decimals["T1"]
    /\ handler_initialize("h1", "T1", args)
SupplyGrant == \E gr \in {<<"h1", Minter>>, <<"h2", Minter>>, <<"h2", Burner>>} :
    handler_grant("h1", "T1", RolePda(ConfigPda("T1"), "h1", Admin), gr[1], gr[2])
SupplyMint == \E a \in {"h1", "h2"}, amount \in U64, pu \in PriceUpdates, oc \in BOOLEAN :
    handler_mint_tokens(a, "T1", RolePda(ConfigPda("T1"), a, Minter), "x", amount, pu, oc)
SupplyBurn == \E a \in {"h1", "h2"}, amount \in U64 :
    handler_burn_tokens(a, "T1", RolePda(ConfigPda("T1"), a, Burner), "x", amount)
SupplyUpdateCap == \E a \in {"h1", "h2"}, cap \in OptU64 :
    handler_update_supply_cap(a, "T1", RolePda(ConfigPda("T1"), a, Admin), cap)

NextSupply ==
    \/ SupplyInitialize
    \/ SupplyGrant
    \/ SupplyMint
    \/ SupplyBurn
    \/ SupplyUpdateCap

SpecSupply == InitSupply /\ [][NextSupply]_vars

\* ---- SpecQuota: the per-minter quota of one token without a cap: h1
\* ---- initializes and administers, h2 is granted (and loses) Minter
QuotaMinter == RolePda(ConfigPda("T1"), "h2", Minter)

QuotaInitialize == \E args \in SupplyInitializeArgs :
    /\ args.decimals = mint_decimals["T1"]
    /\ args.supply_cap = None
    /\ handler_initialize("h1", "T1", args)
QuotaGrant == handler_grant("h1", "T1", RolePda(ConfigPda("T1"), "h1", Admin), "h2", Minter)
QuotaRevoke == handler_revoke("h1", "T1", RolePda(ConfigPda("T1"), "h1", Admin), QuotaMinter)
QuotaUpdateMinter ==
    \E a \in {"h1", "h2"}, q \in OptU64, m \in {QuotaMinter, RolePda(ConfigPda("T1"), "h2", Burner)} :
        handler_update_minter(a, "T1", RolePda(ConfigPda("T1"), a, Admin), m, q)
QuotaMint == \E a \in {"h1", "h2"}, amount \in U64 :
    handler_mint_tokens(a, "T1", RolePda(ConfigPda("T1"), a, Minter), "x", amount, NoPrice, TRUE)
QuotaBurn == \E amount \in U64 :
    handler_burn_tokens("h2", "T1", RolePda(ConfigPda("T1"), "h2", Burner), "x", amount)
QuotaGrantBurner == handler_grant("h1", "T1", RolePda(ConfigPda("T1"), "h1", Admin), "h2", Burner)

NextQuota ==
    \/ QuotaInitialize
    \/ QuotaGrant
    \/ QuotaRevoke
    \/ QuotaUpdateMinter
    \/ QuotaMint
    \/ QuotaGrantBurner
    \/ QuotaBurn

SpecQuota == Init /\ [][NextQuota]_vars

\* ---- SpecHook: the deny-list of two tokens: h1 initializes and administers
\* ---- both, h2 is granted (and loses) Blacklister on either, h3 is listed
HookTokens == {"T1", "T2"}
\* the role accounts presented as blacklister_role
HookRoleAccounts ==
    {RolePda(ConfigPda(t2), h, r) : t2 \in HookTokens, h \in {"h1", "h2"}, r \in {Admin, Blacklister}}

HookInitialize == \E t \in HookTokens, args \in SupplyInitializeArgs :
    /\ args.decimals = mint_decimals[t]
    /\ args.supply_cap = None
    /\ handler_initialize("h1", t, args)
HookGrant == \E t \in HookTokens, r \in {Blacklister, Minter} :
    handler_grant("h1", t, RolePda(ConfigPda(t), "h1", Admin), "h2", r)
\* the target of a revoke or a quota update is a record of either token
HookRevoke == \E t \in HookTokens, t2 \in HookTokens :
    handler_revoke("h1", t, RolePda(ConfigPda(t), "h1", Admin), RolePda(ConfigPda(t2), "h2", Blacklister))
HookUpdateMinter == \E t \in HookTokens, t2 \in HookTokens, q \in {None, Some(1)} :
    handler_update_minter("h1", t, RolePda(ConfigPda(t), "h1", Admin), RolePda(ConfigPda(t2), "h2", Minter), q)
HookAddToBlacklist == \E a \in {"h1", "h2"}, t \in HookTokens, x \in {"h1", "h3"} :
    \E ra \in HookRoleAccounts, reason \in {MAX_REASON_LEN, MAX_REASON_LEN + 1} :
        handler_add_to_blacklist(a, t, ra, x, reason)
HookRemoveFromBlacklist == \E a \in {"h1", "h2"}, t \in HookTokens, e \in HookTokens \X {"h1", "h3"} :
    \E ra \in HookRoleAccounts : handler_remove_from_blacklist(a, t, ra, e)
HookTransfer == \E t \in HookTokens, s \in {"h1", "h3"}, d \in {"h1", "h3"}, fs \in BOOLEAN, fd \in BOOLEAN :
    handler_transfer_hook(t, s, d, fs, fd)

NextHook ==
    \/ HookInitialize
    \/ HookGrant
    \/ HookRevoke
    \/ HookUpdateMinter
    \/ HookAddToBlacklist
    \/ HookRemoveFromBlacklist
    \/ HookTransfer

SpecHook == Init /\ [][NextHook]_vars

\* ---- SpecAdmin: the Admin records of one token among three holders
AdminPda(h) == RolePda(ConfigPda("T1"), h, Admin)

AdminInitialize == \E args \in SupplyInitializeArgs :
    /\ args.decimals = mint_decimals["T1"]
    /\ args.supply_cap = None
    /\ handler_initialize("h1", "T1", args)
AdminGrant == \E a \in Holders, g \in Holders, r \in {Admin, Pauser} :
    handler_grant(a, "T1", AdminPda(a), g, r)
AdminRevoke == \E a \in Holders, g \in Holders, r \in {Admin, Pauser} :
    handler_revoke(a, "T1", AdminPda(a), RolePda(ConfigPda("T1"), g, r))
AdminTransferAuthority == \E a \in Holders, n \in Holders :
    handler_transfer_authority(a, "T1", AdminPda(a), n)

NextAdmin ==
    \/ AdminInitialize
    \/ AdminGrant
    \/ AdminRevoke
    \/ AdminTransferAuthority

SpecAdmin == Init /\ [][NextAdmin]_vars

\* ---- SpecSerial: requests submitted together against one token are executed
\* ---- one at a time in any order (config and minter_role are writable
\* ---- accounts of every mint, config of every pause); h1 initializes with
\* ---- any cap, h1 and h2 mint to x, h2 holds a quota, pauses, freezes and
\* ---- thaws y and seizes from x to y
SerialPda(h, r) == RolePda(ConfigPda("T1"), h, r)
SerialInitialize == \E args \in SupplyInitializeArgs :
    /\ args.decimals = mint_decimals["T1"]
    /\ handler_initialize("h1", "T1", args)
SerialGrant ==
    \E gr \in {<<"h1", Minter>>, <<"h2", Minter>>, <<"h2", Pauser>>, <<"h2", Freezer>>, <<"h2", Seizer>>} :
        handler_grant("h1", "T1", SerialPda("h1", Admin), gr[1], gr[2])
SerialUpdateMinter == \E q \in OptU64 :
    handler_update_minter("h1", "T1", SerialPda("h1", Admin), SerialPda("h2", Minter), q)
SerialMint == \E a \in {"h1", "h2"}, amount \in U64 :
    handler_mint_tokens(a, "T1", SerialPda(a, Minter), "x", amount, NoPrice, TRUE)
SerialPause == handler_pause("h2", "T1", SerialPda("h2", Pauser))
SerialUnpause == handler_unpause("h2", "T1", SerialPda("h2", Pauser))
SerialFreeze == handler_freeze_account("h2", "T1", SerialPda("h2", Freezer), "y")
SerialThaw == handler_thaw_account("h2", "T1", SerialPda("h2", Freezer), "y")
SerialSeize == \E amount \in U64 :
    handler_seize("h2", "T1", SerialPda("h2", Seizer), "x", "y", amount)

NextSerial ==
    \/ SerialInitialize
    \/ SerialGrant
    \/ SerialUpdateMinter
    \/ SerialMint
    \/ SerialPause
    \/ SerialUnpause
    \/ SerialFreeze
    \/ SerialThaw
    \/ SerialSeize

SpecSerial == Init /\ [][NextSerial]_vars

\* ================================================================== claims
HasRole(t, h, r) == RolePda(ConfigPda(t), h, r) \in DOMAIN roles
AdminRecords(t) == {ra \in DOMAIN roles : roles[ra].config = ConfigPda(t) /\ roles[ra].role = Admin}
IsPaused(t) == t \in DOMAIN config /\ config[t].paused
\* the role accounts that can be presented, up to the one distinction the
\* validation makes among accounts that do not exist: every existing record
\* and the (possibly missing) record derived for the signer
Presentable(t, signer, role) == (DOMAIN roles) \cup {RolePda(ConfigPda(t), signer, role)}
Unchanged == UNCHANGED <<config, roles, mint_decimals, bal, frozen, sum_minted, sum_burned, blacklist>>
PausableOps == {"mint", "burn", "freeze", "thaw"}

\* ---- C2
\* C2 as stated: in a paused state every mint, burn, freeze and thaw request
\* ends with the error Paused and changes nothing.
C2_PausedOpsFailWithPaused ==
    [][(IsPaused(last'.t) /\ last'.op \in PausableOps) => (last'.res = "Paused" /\ Unchanged)]_vars

\* what a mint/burn/freeze/thaw request ends with in a paused state
PausedOutcome(ra, accounts_owned) ==
    IF ~RoleLoaded(ra) THEN "AccountNotInitialized"
    ELSE IF ~accounts_owned THEN "AccountOwnedByWrongProgram"
    ELSE "Paused"

PausedResults(t) ==
    \A a \in Holders, amount \in U64, acct \in Accts :
        /\ \A ra \in Presentable(t, a, Minter), pu \in SpecPriceUpdates, oc \in BOOLEAN :
              mint_result(a, t, ra, acct, amount, pu, oc)
                  = PausedOutcome(ra, IsSome(pu) => Unwrap(pu).owner_ok)
        /\ \A ra \in Presentable(t, a, Burner) :
              burn_tokens_result(a, t, ra, acct, amount) = PausedOutcome(ra, TRUE)
        /\ \A ra \in Presentable(t, a, Freezer) :
              /\ freeze_result(a, t, ra, acct) = PausedOutcome(ra, TRUE)
              /\ thaw_result(a, t, ra, acct) = PausedOutcome(ra, TRUE)

\* C2 (amended): in every paused state each of mint, burn, freeze and thaw
\* fails for every caller, every presented account and every amount -- with
\* Paused whenever the accounts presented deserialize, else with the
\* framework's account error -- and the request changes no account.
C2_PausedOpsFail ==
    /\ [](\A t \in Tokens : IsPaused(t) => PausedResults(t))
    /\ [][(IsPaused(last'.t) /\ last'.op \in PausableOps) => (last'.res # "Ok" /\ Unchanged)]_vars

\* a minter holding the Minter record was refused while paused
C2_Witness ==
    /\ last.op = "mint" /\ last.res = "Paused"
    /\ IsPaused(last.t) /\ HasRole(last.t, last.caller, Minter)

\* ---- C3
FlipPaused(cfgs, t) == [cfgs EXCEPT ![t].paused = ~@]

\* C3: a seize request has the same outcome whether paused is true or false:
\* in every reachable state, for every caller, presented account, pair of
\* token accounts and amount, the outcome equals the outcome in the state
\* that differs only in the paused flag.
C3_SeizeIgnoresPause ==
    \A t \in DOMAIN config, a \in Holders, from \in Accts, to \in Accts, amount \in U64 :
        \A ra \in Presentable(t, a, Seizer) :
            seize_result(config, a, t, ra, from, to, amount)
                = seize_result(FlipPaused(config, t), a, t, ra, from, to, amount)

\* a seize succeeded while the token was paused
C3_Witness ==
    /\ last.op = "seize" /\ last.res = "Ok"
    /\ IsPaused(last.t) /\ HasRole(last.t, last.caller, Seizer)

\* ---- C4
\* C4: a grant_role or revoke_role request succeeds only if the caller held
\* an Admin record for the token immediately before the request; in every
\* reachable state a caller without an Admin record is refused every grant
\* (to itself or to anyone else) and every revoke, whatever it presents.
C4_GrantRevokeNeedAdmin ==
    /\ [](\A t \in DOMAIN config, a \in Holders :
            ~HasRole(t, a, Admin) =>
                \A ra \in Presentable(t, a, Admin) :
                    /\ \A g \in Holders, r \in RoleBytes : grant_result(a, t, ra, g, r) # "Ok"
                    /\ \A target \in RoleAddrs : revoke_result(a, t, ra, target) # "Ok")
    /\ [][(last'.op \in {"grant_role", "revoke_role"} /\ last'.res = "Ok")
            => HasRole(last'.t, last'.caller, Admin)]_vars

\* an admin granted a role to another holder who holds no Admin record
C4_Witness ==
    /\ last.op = "grant_role" /\ last.res = "Ok"
    /\ HasRole(last.t, last.caller, Admin)
    /\ \E h \in Holders, r \in Role : h # last.caller /\ ~HasRole(last.t, h, Admin) /\ HasRole(last.t, h, r)

\* ---- C5
RequiredRole(op) ==
    CASE op = "mint" -> Minter
      [] op = "burn" -> Burner
      [] op \in {"freeze", "thaw"} -> Freezer
      [] op \in {"pause", "unpause"} -> Pauser
      [] op = "seize" -> Seizer
      [] op \in {"update_supply_cap", "update_minter", "transfer_authority"} -> Admin
GatedOps ==
    {"mint", "burn", "freeze", "thaw", "pause", "unpause", "seize",
     "update_supply_cap", "update_minter", "transfer_authority"}

\* C5: each role-gated request succeeds only if, when it is processed, a role
\* record (token, caller, exactly the role the request requires) exists;
\* records of any other role, Admin included, do not suffice.
C5_ExactRoleRequired ==
    [][(last'.op \in GatedOps /\ last'.res = "Ok")
          => HasRole(last'.t, last'.caller, RequiredRole(last'.op))]_vars

\* a holder of Minter who holds no Admin record minted, while the admin of
\* the same token holds no Minter record
C5_Witness ==
    /\ last.op = "mint" /\ last.res = "Ok"
    /\ HasRole(last.t, last.caller, Minter) /\ ~HasRole(last.t, last.caller, Admin)
    /\ \E h \in Holders : HasRole(last.t, h, Admin) /\ ~HasRole(last.t, h, Minter)

\* ---- C6
\* C6: admin_count is at least 1 in every reachable state of an initialized
\* token, the state right after initialize included.
C6_AdminCountAtLeastOne == \A t \in DOMAIN config : config[t].admin_count >= 1

\* ---- C7
\* C7: while exactly one Admin record exists for a token, every revoke_role
\* request that targets it fails -- with LastAdmin when the admin itself asks
\* -- and a request that ends with LastAdmin changes neither the records nor
\* admin_count.
C7_LastAdminKept ==
    /\ [](\A t \in DOMAIN config :
            Cardinality(AdminRecords(t)) = 1 =>
                \A target \in AdminRecords(t) :
                    /\ revoke_result(roles[target].address, t, target, target) = "LastAdmin"
                    /\ \A a \in Holders : \A ra \in Presentable(t, a, Admin) :
                          revoke_result(a, t, ra, target) # "Ok")
    /\ [][(last'.op = "revoke_role" /\ last'.res = "LastAdmin") => Unchanged]_vars

\* the sole admin asked to revoke and was refused with LastAdmin
C7_Witness ==
    /\ last.op = "revoke_role" /\ last.res = "LastAdmin"
    /\ AdminRecords(last.t) = {RolePda(ConfigPda(last.t), last.caller, Admin)}

\* ---- C8
\* C8: whenever at least two Admin records exist for a token, an admin's
\* request to revoke any one of them succeeds.
C8_RevokeWithTwoAdmins ==
    \A t \in DOMAIN config :
        Cardinality(AdminRecords(t)) >= 2 =>
            \A ra \in AdminRecords(t), target \in AdminRecords(t) :
                revoke_result(roles[ra].address, t, ra, target) = "Ok"

\* ---- C1
\* C1: in every reachable state of a token with a supply cap,
\* current_supply <= supply_cap.
C1_SupplyWithinCap ==
    \A t \in DOMAIN config :
        IsSome(config[t].supply_cap) => current_supply(config[t]) <= Unwrap(config[t].supply_cap)

\* ---- C9
\* C9: total_burned <= total_minted in every reachable state, and the
\* program's circulating supply equals what the ledger holds.
C9_BurnedWithinMinted ==
    \A t \in DOMAIN config :
        /\ config[t].total_burned <= config[t].total_minted
        /\ config[t].total_minted - config[t].total_burned = ledger_supply(t)

\* a burn of more than the circulating supply was refused by the ledger
C9_Witness ==
    /\ last.op = "burn" /\ last.res = "InsufficientFunds"
    /\ config[last.t].total_minted > 0
    /\ current_supply(config[last.t]) < U64_MAX

\* ---- C10
\* C10: total_minted is the sum of the amounts of the mints that succeeded
\* and total_burned the sum of the amounts of the burns that succeeded;
\* neither counter ever decreases, a failed request changes neither, and
\* current_supply is total_minted - total_burned floored at zero.
C10_CountersAreSums ==
    /\ [](\A t \in DOMAIN config :
            /\ config[t].total_minted = sum_minted[t]
            /\ config[t].total_burned = sum_burned[t]
            /\ current_supply(config[t]) =
                 IF config[t].total_minted >= config[t].total_burned
                 THEN config[t].total_minted - config[t].total_burned ELSE 0)
    /\ [][\A t \in DOMAIN config :
            /\ config'[t].total_minted >= config[t].total_minted
            /\ config'[t].total_burned >= config[t].total_burned
            /\ (last'.res # "Ok" =>
                  /\ config'[t].total_minted = config[t].total_minted
                  /\ config'[t].total_burned = config[t].total_burned)]_vars

\* mints and burns have both succeeded and the supply was minted twice over
C10_Witness ==
    /\ last.op = "mint" /\ last.res = "Ok"
    /\ sum_burned[last.t] > 0
    /\ sum_minted[last.t] > sum_burned[last.t]
    /\ config[last.t].total_minted = sum_minted[last.t]

\* ---- C11
\* C11: in every reachable state every Minter record with a quota set has
\* amount_minted <= mint_quota.
C11_MintedWithinQuota ==
    \A ra \in DOMAIN roles :
        (roles[ra].role = Minter /\ IsSome(roles[ra].mint_quota))
            => roles[ra].amount_minted <= Unwrap(roles[ra].mint_quota)

\* ---- C12
\* what the quota check of a mint of `amount` by the holder of record ra,
\* which carries a quota, has to answer
QuotaVerdict(ra, amount) ==
    IF roles[ra].amount_minted + amount > U64_MAX THEN "ArithmeticOverflow"
    ELSE IF roles[ra].amount_minted + amount > Unwrap(roles[ra].mint_quota) THEN "QuotaExceeded"
    ELSE "Ok"

\* C12: for a minter whose record carries a quota, an unpaused mint of a
\* positive amount fails with ArithmeticOverflow if amount_minted + amount
\* overflows, else with QuotaExceeded if the sum exceeds the quota, and is
\* not refused for its quota when the sum is at most the quota; it succeeds
\* only then, and a successful mint raises the minter's amount_minted by
\* exactly the amount minted.
C12_QuotaCheck ==
    /\ [](\A t \in DOMAIN config, a \in Holders, amount \in 1 .. U64_MAX, to \in Accts, pu \in SpecPriceUpdates :
            LET ra == RolePda(ConfigPda(t), a, Minter)
                res == mint_result(a, t, ra, to, amount, pu, TRUE)
            IN (/\ RoleLoaded(ra) /\ IsSome(roles[ra].mint_quota)
                /\ mint_accounts_result(a, t, ra, pu) = "Ok")
               => /\ QuotaVerdict(ra, amount) # "Ok" => res = QuotaVerdict(ra, amount)
                  /\ QuotaVerdict(ra, amount) = "Ok" => res # "QuotaExceeded"
                  /\ res = "Ok" => roles[ra].amount_minted + amount <= Unwrap(roles[ra].mint_quota))
    /\ [][(last'.op = "mint" /\ last'.res = "Ok")
            => LET ra == RolePda(ConfigPda(last'.t), last'.caller, Minter)
               IN roles'[ra].amount_minted - roles[ra].amount_minted
                    = sum_minted'[last'.t] - sum_minted[last'.t]]_vars

\* a mint that reached the quota exactly succeeded
C12_Witness ==
    /\ last.op = "mint" /\ last.res = "Ok"
    /\ LET ra == RolePda(ConfigPda(last.t), last.caller, Minter)
       IN /\ IsSome(roles[ra].mint_quota)
          /\ roles[ra].amount_minted = Unwrap(roles[ra].mint_quota)
          /\ roles[ra].amount_minted < U64_MAX

\* ---- C13
\* a mint of `amount` to `to` by the holder of the Minter record ra that is
\* valid but for the supply cap: the accounts validate, the amount is
\* positive, the quota admits it, the counters total_minted and
\* amount_minted do not overflow and the ledger accepts the credit
OtherwiseValidMint(a, t, ra, to, amount) ==
    /\ mint_accounts_result(a, t, ra, NoPrice) = "Ok"
    /\ amount > 0
    /\ quota_result(roles[ra], amount) = "Ok"
    /\ config[t].total_minted + amount <= U64_MAX
    /\ roles[ra].amount_minted + amount <= U64_MAX
    /\ mint_to_result(t, to, amount) = "Ok"

\* C13: with a cap set and no price update passed, an otherwise valid mint
\* succeeds exactly when current_supply + amount <= supply_cap, and fails
\* with SupplyCapExceeded when it does not.
C13_RawCapDecidesMint ==
    \A t \in DOMAIN config, a \in Holders, amount \in U64, to \in Accts :
        LET ra == RolePda(ConfigPda(t), a, Minter)
            res == mint_result(a, t, ra, to, amount, NoPrice, TRUE)
        IN (IsSome(config[t].supply_cap) /\ RoleLoaded(ra) /\ OtherwiseValidMint(a, t, ra, to, amount))
           => IF current_supply(config[t]) + amount <= Unwrap(config[t].supply_cap)
              THEN res = "Ok" ELSE res = "SupplyCapExceeded"

\* a mint brought the supply exactly to the cap after a burn had freed supply
C13_Witness ==
    /\ last.op = "mint" /\ last.res = "Ok"
    /\ IsSome(config[last.t].supply_cap)
    /\ current_supply(config[last.t]) = Unwrap(config[last.t].supply_cap)
    /\ config[last.t].total_burned > 0
    /\ config[last.t].total_minted > Unwrap(config[last.t].supply_cap)

\* ---- C14
\* C14: total_minted never wraps: in every state it is the true sum of the
\* mints that succeeded, every mint whose amount would take it past the
\* 64-bit maximum is rejected and leaves it as it was, and a mint of more
\* than half the maximum succeeds only when the mints before it sum to at
\* most half the maximum -- so at most one such mint ever succeeds.
C14_TotalMintedNeverWraps ==
    /\ [](\A t \in DOMAIN config :
            /\ config[t].total_minted = sum_minted[t]
            /\ sum_minted[t] <= U64_MAX
            /\ \A a \in Holders, amount \in U64, to \in Accts, pu \in PriceUpdates, oc \in BOOLEAN :
                  config[t].total_minted + amount > U64_MAX
                      => mint_result(a, t, RolePda(ConfigPda(t), a, Minter), to, amount, pu, oc) # "Ok")
    /\ [][\A t \in DOMAIN config :
            /\ (last'.op = "mint" /\ last'.res # "Ok")
                  => config'[t].total_minted = config[t].total_minted
            /\ 2 * (sum_minted'[t] - sum_minted[t]) > U64_MAX => 2 * sum_minted[t] <= U64_MAX]_vars

\* after a mint of more than half the maximum, a mint by a fresh minter
\* without quota on a token without cap was refused for the overflow of
\* total_minted
C14_Witness ==
    /\ last.op = "mint" /\ last.res = "ArithmeticOverflow"
    /\ ~IsSome(config[last.t].supply_cap)
    /\ 2 * config[last.t].total_minted > U64_MAX
    /\ LET ra == RolePda(ConfigPda(last.t), last.caller, Minter)
       IN RoleLoaded(ra) /\ ~IsSome(roles[ra].mint_quota) /\ roles[ra].amount_minted = 0

\* ---- C15
\* C15: a mint request ends with SupplyCapExceeded only for a token that has
\* a supply cap; without a cap an overflow is reported as ArithmeticOverflow.
C15_CapErrorNeedsCap ==
    [][(last'.op = "mint" /\ last'.res = "SupplyCapExceeded")
          => IsSome(config[last'.t].supply_cap)]_vars

C17_GateVerdict ==
    \A t \in Tokens, s \in Holders, d \in Holders, fs \in BOOLEAN, fd \in BOOLEAN :
        execute_hook_result(t, s, d, fs, fd) =
            IF \E e \in DOMAIN blacklist : blacklist[e].mint = t /\ blacklist[e].address = s
            THEN "SenderBlacklisted"
            ELSE IF \E e \in DOMAIN blacklist : blacklist[e].mint = t /\ blacklist[e].address = d
            THEN "ReceiverBlacklisted"
            ELSE "Ok"

\* a transfer of T1 by h3 was allowed while h3 is listed for T2
C17_Witness ==
    /\ last = Req("transfer_hook", "T1", "h3", "Ok")
    /\ \E e \in DOMAIN blacklist : blacklist[e].mint = "T2" /\ blacklist[e].address = "h3"

\* ---- C18
\* every transfer of token e[1] with the address e[2] as sender (the source
\* authority the ledger hands to the gate) or as receiver (the destination
\* owner) is rejected
Denied(e) ==
    \A o \in Holders, fs \in BOOLEAN, fd \in BOOLEAN :
        /\ execute_hook_result(e[1], e[2], o, fs, fd) = "SenderBlacklisted"
        /\ execute_hook_result(e[1], o, e[2], fs, fd) \in {"SenderBlacklisted", "ReceiverBlacklisted"}

\* C18: while the entry (T, X) exists every transfer on T with X as sender
\* or receiver is rejected; an entry comes into being only by a successful
\* add_to_blacklist and ceases to exist only by a successful
\* remove_from_blacklist, after which a transfer between X and an unlisted
\* address is allowed again; no other request removes it.
C18_DeniedUntilRemoved ==
    /\ [](\A e \in DOMAIN blacklist : Denied(e))
    /\ [][/\ \A e \in DOMAIN blacklist :
                e \notin DOMAIN blacklist'
                    => /\ last' = Req("remove_from_blacklist", e[1], last'.caller, "Ok")
                       /\ \A o \in Holders :
                            BlacklistPda(e[1], o) \notin DOMAIN blacklist'
                                => /\ execute_hook_result(e[1], e[2], o, FALSE, FALSE)' = "Ok"
                                   /\ execute_hook_result(e[1], o, e[2], FALSE, FALSE)' = "Ok"
          /\ \A e \in DOMAIN blacklist' :
                e \notin DOMAIN blacklist
                    => last' = Req("add_to_blacklist", e[1], last'.caller, "Ok")]_vars

\* the blacklister who added an entry has just been revoked and the entry
\* is still there
C18_Witness ==
    /\ last.op = "revoke_role" /\ last.res = "Ok"
    /\ \E e \in DOMAIN blacklist :
          /\ blacklist[e].mint = last.t
          /\ ~HasRole(last.t, blacklist[e].added_by, Blacklister)
          /\ ~HasRole(last.t, blacklist[e].added_by, Admin)

\* ---- C19
BlacklistOps == {"add_to_blacklist", "remove_from_blacklist"}

\* C19 as stated: a deny-list request for token T by a caller who holds no
\* Blacklister record for T ends with the error Unauthorized and leaves the
\* deny-list unchanged.
C19_NoBlacklisterIsUnauthorized ==
    [][(last'.op \in BlacklistOps /\ ~HasRole(last'.t, last'.caller, Blacklister))
          => (last'.res = "Unauthorized" /\ blacklist' = blacklist)]_vars

\* C19: add_to_blacklist and remove_from_blacklist for token T succeed only
\* if the caller holds a Blacklister record for T and presents it; a caller
\* who holds none (Blacklister only for another token, only other roles on
\* T, another holder's record, a revoked record) always fails and the
\* deny-list is unchanged; the error is Unauthorized unless an earlier check
\* fails first: an add for an address already listed (AccountAlreadyInUse)
\* or with a reason over 512 bytes (ReasonTooLong), a remove of an entry
\* that does not exist (AccountNotInitialized) or that is not the entry of
\* the token named (ConstraintSeeds).
C19_BlacklisterForTokenRequired ==
    /\ [](\A a \in Holders, t \in Tokens, ra \in HookRoleAccounts \cup DOMAIN roles :
            /\ \A x \in Holders, reason \in {0, MAX_REASON_LEN, MAX_REASON_LEN + 1} :
                /\ add_to_blacklist_result(a, t, ra, x, reason) = "Ok"
                      => HasRole(t, a, Blacklister) /\ ra = RolePda(ConfigPda(t), a, Blacklister)
                /\ ~HasRole(t, a, Blacklister)
                      => add_to_blacklist_result(a, t, ra, x, reason) =
                            IF BlacklistPda(t, x) \in DOMAIN blacklist THEN "AccountAlreadyInUse"
                            ELSE IF reason > MAX_REASON_LEN THEN "ReasonTooLong"
                            ELSE "Unauthorized"
            /\ \A e \in Tokens \X Holders :
                /\ remove_from_blacklist_result(a, t, ra, e) = "Ok"
                      => HasRole(t, a, Blacklister) /\ ra = RolePda(ConfigPda(t), a, Blacklister)
                /\ ~HasRole(t, a, Blacklister)
                      => remove_from_blacklist_result(a, t, ra, e) =
                            IF e \notin DOMAIN blacklist THEN "AccountNotInitialized"
                            ELSE IF e[1] # t THEN "ConstraintSeeds"
                            ELSE "Unauthorized")
    /\ [][last'.op \in BlacklistOps
            => /\ last'.res = "Ok" => HasRole(last'.t, last'.caller, Blacklister)
               /\ last'.res # "Ok" => blacklist' = blacklist
               /\ ~HasRole(last'.t, last'.caller, Blacklister)
                    => /\ blacklist' = blacklist
                       /\ last'.res \in {"Unauthorized", "AccountAlreadyInUse", "ReasonTooLong",
                                         "AccountNotInitialized", "ConstraintSeeds"}]_vars

\* h2, Blacklister for T2 only, was refused an add on T1 as Unauthorized
C19_Witness ==
    /\ last = Req("add_to_blacklist", "T1", "h2", "Unauthorized")
    /\ "T1" \in DOMAIN config
    /\ HasRole("T2", "h2", Blacklister)
    /\ ~HasRole("T1", "h2", Blacklister)

\* ---- C20
\* what a successful pause or unpause does, and that nothing else moves the flag
PauseFlagSteps ==
    /\ (last'.op = "pause" /\ last'.res = "Ok")
          => /\ last'.t \in DOMAIN config /\ ~config[last'.t].paused
             /\ config'[last'.t].paused
    /\ (last'.op = "unpause" /\ last'.res = "Ok")
          => /\ last'.t \in DOMAIN config /\ config[last'.t].paused
             /\ ~config'[last'.t].paused
    /\ \A t \in (DOMAIN config) \cap (DOMAIN config') :
          config'[t].paused # config[t].paused
              => last'.op \in {"pause", "unpause"} /\ last'.res = "Ok" /\ last'.t = t

AdminOps ==
    {"grant_role", "revoke_role", "transfer_authority", "update_supply_cap", "update_minter",
     "add_to_blacklist", "remove_from_blacklist"}

\* C21: in a state with paused = true every grant_role, revoke_role,
\* transfer_authority, update_supply_cap, update_minter, add_to_blacklist
\* and remove_from_blacklist request on that token fails.
C21_PausedAdminOpsFail ==
    [][(last'.op \in AdminOps /\ IsPaused(last'.t)) => last'.res # "Ok"]_vars

\* ---- C22
\* C22: a successful transfer_authority by A to B deletes A's Admin record,
\* creates an Admin record for B, sets config.authority to B and changes
\* nothing else (admin_count, every other record, every other field); a
\* transfer_authority to a B that holds an Admin record (B = A included)
\* fails, and a failed one changes nothing.
C22_TransferAuthorityEffect ==
    /\ [](\A a \in Holders, t \in Tokens, b \in Holders : \A ra \in Presentable(t, a, Admin) :
            HasRole(t, b, Admin) => transfer_authority_result(a, t, ra, b) # "Ok")
    /\ [][last'.op = "transfer_authority"
            => IF last'.res # "Ok" THEN Unchanged
               ELSE LET t == last'.t
                        old == RolePda(ConfigPda(t), last'.caller, Admin)
                    IN  \E b \in Holders \ {last'.caller} :
                          LET new == RolePda(ConfigPda(t), b, Admin) IN
                          /\ old \in DOMAIN roles /\ new \notin DOMAIN roles
                          /\ DOMAIN roles' = ((DOMAIN roles) \ {old}) \cup {new}
                          /\ roles'[new] = [config |-> ConfigPda(t), address |-> b, role |-> Admin,
                                            mint_quota |-> None, amount_minted |-> 0]
                          /\ \A r \in (DOMAIN roles) \ {old} : roles'[r] = roles[r]
                          /\ config' = [config EXCEPT ![t].authority = b]
                          /\ config'[t].admin_count = config[t].admin_count
                          /\ UNCHANGED <<mint_decimals, bal, frozen, sum_minted, sum_burned, blacklist>>]_vars

\* the authority went from h1 to h2 while another record of the token exists
C22_Witness ==
    /\ last = Req("transfer_authority", "T1", "h1", "Ok")
    /\ config["T1"].authority = "h2"
    /\ HasRole("T1", "h2", Admin) /\ ~HasRole("T1", "h1", Admin)
    /\ \E r \in DOMAIN roles : roles[r].role # Admin

\* ---- C23
\* C23: every capability record sits at the address derived from its own
\* (token, holder, role), so no two records share a triple; a grant_role
\* for a triple that has a record fails and changes nothing (the record,
\* its quota and amount_minted, admin_count); a successful grant adds one
\* record for a triple that had none and leaves the others as they were.
C23_OneRecordPerTriple ==
    /\ [](/\ \A r \in DOMAIN roles :
                r = RolePda(roles[r].config, roles[r].address, roles[r].role)
          /\ \A r1 \in DOMAIN roles, r2 \in DOMAIN roles :
                (/\ roles[r1].config = roles[r2].config
                 /\ roles[r1].address = roles[r2].address
                 /\ roles[r1].role = roles[r2].role) => r1 = r2
          /\ \A a \in Holders, t \in Tokens, g \in Holders, role \in RoleBytes :
                \A ra \in Presentable(t, a, Admin) :
                    HasRole(t, g, role) => grant_result(a, t, ra, g, role) # "Ok")
    /\ [][last'.op = "grant_role"
            => IF last'.res # "Ok" THEN Unchanged
               ELSE \E new \in DOMAIN roles' :
                      /\ new \notin DOMAIN roles
                      /\ DOMAIN roles' = (DOMAIN roles) \cup {new}
                      /\ \A r \in DOMAIN roles : roles'[r] = roles[r]]_vars

\* a second grant of Minter to h2 was refused; h2's record keeps its quota
\* and what it has minted
C23_Witness ==
    /\ last = Req("grant_role", "T1", "h1", "AccountAlreadyInUse")
    /\ QuotaMinter \in DOMAIN roles
    /\ IsSome(roles[QuotaMinter].mint_quota)
    /\ roles[QuotaMinter].amount_minted > 0

\* ---- C24
\* minted less burned, never below zero
NetSupply(t) ==
    IF config[t].total_minted >= config[t].total_burned
    THEN config[t].total_minted - config[t].total_burned
    ELSE 0

\* C24: update_supply_cap by an Admin with a present new_cap succeeds
\* exactly when new_cap >= current_supply() and fails with InvalidSupplyCap
\* otherwise, leaving the stored cap alone; with an absent new_cap it
\* succeeds and removes the cap; whatever the outcome, nothing but the cap
\* (total_minted, total_burned, paused, every record) changes.
C24_UpdateSupplyCap ==
    /\ [](\A t \in DOMAIN config, a \in Holders, cap \in OptU64 :
            HasRole(t, a, Admin)
                => update_supply_cap_result(a, t, RolePda(ConfigPda(t), a, Admin), cap) =
                      IF IsSome(cap) /\ Unwrap(cap) < NetSupply(t)
                      THEN "InvalidSupplyCap" ELSE "Ok")
    /\ [][last'.op = "update_supply_cap"
            => IF last'.res # "Ok" THEN Unchanged
               ELSE LET t == last'.t IN
                    /\ HasRole(t, last'.caller, Admin)
                    /\ \/ config'[t].supply_cap = None
                       \/ Unwrap(config'[t].supply_cap) >= NetSupply(t)
                    /\ config' = [config EXCEPT ![t].supply_cap = config'[t].supply_cap]
                    /\ UNCHANGED <<roles, mint_decimals, bal, frozen, sum_minted, sum_burned, blacklist>>]_vars

\* a cap below the current supply was refused after some of the minted
\* amount had been burned
C24_Witness ==
    /\ last = Req("update_supply_cap", "T1", "h1", "InvalidSupplyCap")
    /\ config["T1"].total_burned > 0
    /\ NetSupply("T1") > 0
    /\ IsSome(config["T1"].supply_cap)

\* ---- C25
\* C25: update_minter is rejected when the caller holds no Admin record of
\* the token or when the target record's role is not Minter; a successful
\* one changes the mint_quota of the target record and nothing else (its
\* amount_minted, every other record, the configuration); a rejected one
\* changes nothing.
C25_UpdateMinterFrame ==
    /\ [](\A t \in DOMAIN config, a \in Holders, m \in DOMAIN roles :
            \A ra \in Presentable(t, a, Admin) :
                (~HasRole(t, a, Admin) \/ roles[m].role # Minter)
                    => update_minter_result(a, t, ra, m) # "Ok")
    /\ [][last'.op = "update_minter"
            => IF last'.res # "Ok" THEN Unchanged
               ELSE /\ HasRole(last'.t, last'.caller, Admin)
                    /\ \E m \in DOMAIN roles :
                          /\ roles[m].role = Minter
                          /\ roles[m].config = ConfigPda(last'.t)
                          /\ roles' = [roles EXCEPT ![m].mint_quota = roles'[m].mint_quota]
                          /\ roles'[m].amount_minted = roles[m].amount_minted
                    /\ UNCHANGED <<config, mint_decimals, bal, frozen, sum_minted, sum_burned, blacklist>>]_vars

\* the quota of a minter that has minted was set, below what it has minted
C25_Witness ==
    /\ last = Req("update_minter", "T1", "h1", "Ok")
    /\ QuotaMinter \in DOMAIN roles
    /\ IsSome(roles[QuotaMinter].mint_quota)
    /\ roles[QuotaMinter].amount_minted > Unwrap(roles[QuotaMinter].mint_quota)

\* ---- C26
\* valid quotes: fresh, of the feed asked for, with a price > 0
ValidQuotes ==
    {PriceUpdate(TRUE, TRUE, age, p, e) :
        age \in {0, ORACLE_MAX_AGE_SECS}, p \in 1 .. 2 * MaxPrice, e \in -MaxExpo .. MaxExpo}

Abs(n) == IF n < 0 THEN -n ELSE n

\* the conversion in unbounded integers
ExactTokenCap(usd_cap, pu, decimals) ==
    IF pu.expo < 0
    THEN (usd_cap * 10 ^ decimals * 10 ^ Abs(pu.expo)) \div pu.price
    ELSE (usd_cap * 10 ^ decimals) \div (pu.price * 10 ^ pu.expo)

\* every intermediate value of the conversion fits the 128-bit width
IntermediatesFit(usd_cap, pu, decimals) ==
    /\ 10 ^ decimals <= U128_MAX
    /\ 10 ^ Abs(pu.expo) <= U128_MAX
    /\ usd_cap * 10 ^ decimals <= U128_MAX
    /\ IF pu.expo < 0
       THEN usd_cap * 10 ^ decimals * 10 ^ Abs(pu.expo) <= U128_MAX
       ELSE pu.price * 10 ^ pu.expo <= U128_MAX

\* C26: for a present usd_cap and a valid price > 0 the converter returns
\* floor(usd_cap * 10^decimals * 10^|exponent| / price) for an exponent < 0
\* and floor(usd_cap * 10^decimals / (price * 10^exponent)) otherwise,
\* whenever the intermediate values fit 128 bits and the result 64 bits; a
\* price equal to 10^|exponent| (a quote of 1.0, as 100_000_000 at exponent
\* -8) gives usd_cap * 10^decimals.
C26_ConversionFormula ==
    /\ \A t \in DOMAIN config, pu \in ValidQuotes, oc \in BOOLEAN :
          LET c == config[t] IN
          (/\ IsSome(c.supply_cap)
           /\ IntermediatesFit(Unwrap(c.supply_cap), pu, mint_decimals[t])
           /\ ExactTokenCap(Unwrap(c.supply_cap), pu, mint_decimals[t]) <= U64_MAX)
              => effective_cap(c, Some(pu), mint_decimals[t], oc) =
                    OracleOk(Some(ExactTokenCap(Unwrap(c.supply_cap), pu, mint_decimals[t])))
    /\ \A usd_cap \in 1 .. U64_MAX, d \in 0 .. MaxDecimals, oc \in BOOLEAN :
          LET pu == PriceUpdate(TRUE, TRUE, 0, 10 ^ MaxExpo, -MaxExpo) IN
          (IntermediatesFit(usd_cap, pu, d) /\ usd_cap * 10 ^ d <= U64_MAX)
              => adjust_cap_with_oracle(Some(usd_cap), pu, d, oc) = OracleOk(Some(usd_cap * 10 ^ d))

\* a mint against the converted cap took the supply above the raw cap
C26_Witness ==
    /\ last.op = "mint" /\ last.res = "Ok" /\ last.t = "T1"
    /\ "T1" \in DOMAIN config
    /\ config["T1"].supply_cap = Some(1)
    /\ mint_decimals["T1"] = 0
    /\ NetSupply("T1") = 2
    /\ config["T1"].total_burned = 0

\* ---- C27
\* valid quotes, those with an exponent one beyond MaxExpo included
WideQuotes ==
    {PriceUpdate(TRUE, TRUE, 0, p, e) :
        p \in {1, MaxPrice}, e \in -(MaxExpo + 1) .. (MaxExpo + 1)}

\* C27: whenever an intermediate value of the conversion (a power of ten,
\* a product) exceeds the 128-bit width, the conversion ends with
\* ArithmeticOverflow, and no mint aborts in any other way.
C27_OverflowIsArithmeticOverflow ==
    /\ [](\A t \in DOMAIN config, pu \in WideQuotes, oc \in BOOLEAN :
            (/\ IsSome(config[t].supply_cap)
             /\ ~IntermediatesFit(Unwrap(config[t].supply_cap), pu, mint_decimals[t]))
                => effective_cap(config[t], Some(pu), mint_decimals[t], oc).err = "ArithmeticOverflow")
    /\ [][last'.op = "mint" => last'.res # "ProgramPanicked"]_vars

\* ---- C28
\* C28: when the converted cap does not fit 64 bits (its intermediate values
\* fitting 128) the converter returns the 64-bit maximum and no error; a
\* mint by a minter without quota against that cap never ends with
\* SupplyCapExceeded: it succeeds when total_minted + amount fits 64 bits
\* and ends with ArithmeticOverflow otherwise.
C28_ClampedCapIsUnlimited ==
    \A t \in DOMAIN config, pu \in ValidQuotes, oc \in BOOLEAN :
        LET c == config[t] IN
        (/\ IsSome(c.supply_cap)
         /\ IntermediatesFit(Unwrap(c.supply_cap), pu, mint_decimals[t])
         /\ ExactTokenCap(Unwrap(c.supply_cap), pu, mint_decimals[t]) > U64_MAX)
            => /\ effective_cap(c, Some(pu), mint_decimals[t], oc) = OracleOk(Some(U64_MAX))
               /\ \A a \in Holders, amount \in 1 .. U64_MAX :
                    LET ra == RolePda(ConfigPda(t), a, Minter) IN
                    (/\ ra \in DOMAIN roles
                     /\ roles[ra].mint_quota = None
                     /\ ~c.paused)
                        => mint_result(a, t, ra, "x", amount, Some(pu), oc) =
                              IF c.total_minted + amount <= U64_MAX
                              THEN "Ok" ELSE "ArithmeticOverflow"

\* with a raw cap of 1 the whole 64-bit range has been minted
C28_Witness ==
    /\ last.op = "mint" /\ last.res = "Ok" /\ last.t = "T1"
    /\ "T1" \in DOMAIN config
    /\ config["T1"].supply_cap = Some(1)
    /\ config["T1"].total_burned = 0
    /\ NetSupply("T1") = U64_MAX

\* ---- C29
\* quotes of the feed asked for, of every age and sign of price
AgedQuotes ==
    {PriceUpdate(TRUE, TRUE, age, p, e) :
        age \in {0, ORACLE_MAX_AGE_SECS, ORACLE_MAX_AGE_SECS + 1},
        p \in {-1, 0, 1, MaxPrice}, e \in {-MaxExpo, 0}}

AnyQuotes ==
    {PriceUpdate(TRUE, f, age, p, e) :
        f \in BOOLEAN, age \in {0, ORACLE_MAX_AGE_SECS + 1},
        p \in {-1, 0, 1, MaxPrice}, e \in {-(MaxExpo + 1), -MaxExpo, 0, MaxExpo + 1}}

\* a stale quote with a price of zero
BadQuote == PriceUpdate(TRUE, TRUE, ORACLE_MAX_AGE_SECS + 1, 0, 0)

\* C30: for a token without supply cap the outcome of a mint is the same
\* with no price update and with any price update account (valid, stale,
\* non-positive), for every caller and amount.
C30_NoCapIgnoresPrice ==
    \A t \in DOMAIN config :
        config[t].supply_cap = None
            => \A a \in Holders, amount \in U64, pu \in AnyQuotes, oc \in BOOLEAN :
                  LET ra == RolePda(ConfigPda(t), a, Minter) IN
                  mint_result(a, t, ra, "x", amount, Some(pu), oc) =
                      mint_result(a, t, ra, "x", amount, NoPrice, oc)

\* a mint on a token without cap went through, in a state where the same
\* mint with a stale quote of price 0 goes through as well
C30_Witness ==
    /\ last = Req("mint", "T1", "h2", "Ok")
    /\ config["T1"].supply_cap = None
    /\ mint_result("h2", "T1", RolePda(ConfigPda("T1"), "h2", Minter), "x", 1, Some(BadQuote), TRUE) = "Ok"

AnyInitializeArgs == InitializeArgs({None, Some(U64_MAX)})
ArgsValid(args) ==
    /\ args.preset >= 1 /\ args.preset <= 3
    /\ args.name <= 32
    /\ args.symbol <= 10
    /\ args.uri <= 200
ArgErrors == {"InvalidPreset", "NameTooLong", "SymbolTooLong", "UriTooLong"}
RecordsOf(t) == {ra \in DOMAIN roles : roles[ra].config = ConfigPda(t)}

\* C33: initialize succeeds only for a token that has no configuration yet and
\* only with valid arguments; on a token without configuration invalid
\* arguments give one of the four argument errors; a failed initialize creates
\* nothing; a successful one writes paused = false, zero counters, the given
\* cap and authority = caller, and leaves exactly one capability record for
\* the token, the caller's Admin record; no step removes a configuration
C33_InitializeOnce ==
    /\ [](\A a \in Holders, t \in Tokens, args \in AnyInitializeArgs :
            /\ initialize_result(a, t, args) = "Ok" => (t \notin DOMAIN config /\ ArgsValid(args))
            /\ (t \notin DOMAIN config /\ ~ArgsValid(args))
                  => initialize_result(a, t, args) \in ArgErrors
            /\ LET c == InitialConfig(a, t, args) IN
                  /\ c.paused = FALSE /\ c.total_minted = 0 /\ c.total_burned = 0
                  /\ c.supply_cap = args.supply_cap /\ c.authority = a)
    /\ [][last'.op = "initialize" =>
            IF last'.res = "Ok"
            THEN /\ last'.t \notin DOMAIN config
                 /\ \E args \in AnyInitializeArgs :
                       /\ ArgsValid(args)
                       /\ config' = Put(config, last'.t, InitialConfig(last'.caller, last'.t, args))
                 /\ {ra \in DOMAIN roles' : roles'[ra].config = ConfigPda(last'.t)}
                       = {RolePda(ConfigPda(last'.t), last'.caller, Admin)}
                 /\ roles'[RolePda(ConfigPda(last'.t), last'.caller, Admin)].role = Admin
                 /\ roles'[RolePda(ConfigPda(last'.t), last'.caller, Admin)].address = last'.caller
            ELSE Unchanged]_vars
    /\ [][DOMAIN config \subseteq DOMAIN config']_vars

\* a second initialize of an initialized token has just been refused
C33_Witness ==
    /\ last = Req("initialize", "T1", "h1", "AccountAlreadyInUse")
    /\ "T1" \in DOMAIN config
    /\ RecordsOf("T1") # {}

\* ---------------------------------------------------------------- C34
\* C34: admin_count of every initialized token equals the number of Admin
\* capability records that exist for it
C34_AdminCountIsNumberOfAdmins ==
    \A t \in DOMAIN config : config[t].admin_count = Cardinality(AdminRecords(t))

\* ---------------------------------------------------------------- C36
\* C36: the identity stored in the authority field of a configuration holds
\* an Admin capability record for that token
C36_AuthorityIsAdmin ==
    \A t \in DOMAIN config : HasRole(t, config[t].authority, Admin)

\* ---------------------------------------------------------------- C35
\* the Minter records of token t that carry no quota
UnlimitedMinters(t) ==
    {ra \in DOMAIN roles :
        /\ roles[ra].config = ConfigPda(t)
        /\ roles[ra].role = Minter
        /\ ~IsSome(roles[ra].mint_quota)}

ConfigOf(t) == IF t \in DOMAIN config THEN Some(config[t]) ELSE None
RecordsFor(t) == [ra \in {x \in DOMAIN roles : roles[x].config = ConfigPda(t)} |-> roles[ra]]
EntriesFor(t) == [e \in {x \in DOMAIN blacklist : blacklist[x].mint = t} |-> blacklist[e]]
\* the capability records that belong to a token other than t
ForeignRecords(t) == {ra \in DOMAIN roles : roles[ra].config # ConfigPda(t)}

\* C37: a request addressed to token A changes no configuration, capability
\* record or deny-list entry of another token B; a capability record of
\* another token passes no role check of a request on A (as the caller's
\* record of grant_role, revoke_role, update_minter, mint, of the requests
\* behind the plain role gate, and of the deny-list requests); and revoke_role
\* and update_minter on A refuse a target record of another token
C37_TokensIsolated ==
    /\ [][\A b \in Tokens \ {last'.t} :
            /\ ConfigOf(b)' = ConfigOf(b)
            /\ RecordsFor(b)' = RecordsFor(b)
            /\ EntriesFor(b)' = EntriesFor(b)]_vars
    /\ [](\A t \in DOMAIN config : \A ra \in ForeignRecords(t) : \A a \in Holders :
            /\ \A r \in Role : RoleGate(t, a, ra, r) # "Ok"
            /\ mint_accounts_result(a, t, ra, NoPrice) # "Ok"
            /\ ~verify_blacklister_for_mint(ra, t, a)
            /\ \A g \in Holders, r \in Role : grant_result(a, t, ra, g, r) # "Ok"
            /\ \A x \in DOMAIN roles :
                  /\ revoke_result(a, t, ra, x) # "Ok"
                  /\ update_minter_result(a, t, ra, x) # "Ok"
                  /\ \A own \in DOMAIN roles :
                        /\ revoke_result(a, t, own, ra) # "Ok"
                        /\ update_minter_result(a, t, own, ra) # "Ok")

\* the admin of T1 has just asked to revoke the Blacklister record of T2,
\* which is still there
C37_Witness ==
    /\ last = Req("revoke_role", "T1", "h1", "ConstraintRaw")
    /\ RolePda(ConfigPda("T2"), "h2", Blacklister) \in DOMAIN roles
    /\ RolePda(ConfigPda("T1"), "h1", Admin) \in DOMAIN roles

\* ---------------------------------------------------------------- C38
\* C38: every record a successful grant_role creates starts with no quota and
\* amount_minted = 0, whatever record the holder held before; a Minter record
\* without quota passes the quota check for every amount, so only the supply
\* cap bounds its mints; and a record carries a quota only after an
\* update_minter has set one
C38_GrantStartsUnlimited ==
    /\ [][(last'.op = "grant_role" /\ last'.res = "Ok") =>
            /\ DOMAIN roles' # DOMAIN roles
            /\ \A ra \in (DOMAIN roles') \ (DOMAIN roles) :
                  /\ roles'[ra].mint_quota = None
                  /\ roles'[ra].amount_minted = 0]_vars
    /\ [][\A ra \in DOMAIN roles' :
            (IsSome(roles'[ra].mint_quota)
               /\ (ra \notin DOMAIN roles \/ roles[ra].mint_quota # roles'[ra].mint_quota))
                  => (last'.op = "update_minter" /\ last'.res = "Ok")]_vars
    /\ [](\A ra \in DOMAIN roles :
            (roles[ra].role = Minter /\ ~IsSome(roles[ra].mint_quota))
                => \A amount \in U64 : quota_result(roles[ra], amount) = "Ok")

\* h2 has minted, lost its Minter record, been granted a new one and minted
\* again: the new record counts less than h2 has minted in total
C38_Witness ==
    /\ last = Req("mint", "T1", "h2", "Ok")
    /\ QuotaMinter \in DOMAIN roles
    /\ roles[QuotaMinter].mint_quota = None
    /\ roles[QuotaMinter].amount_minted < sum_minted["T1"]

\* ---------------------------------------------------------------- C39
WithCap(cfgs, t, cap) == [cfgs EXCEPT ![t].supply_cap = cap]

HoldersOf(t, r) == {h \in Holders : HasRole(t, h, r)}

\* C40: in every state in which a token is paused the way back is open: an
\* Admin record exists; every admin's grant of Pauser to a holder without a
\* Pauser record is accepted; every Pauser's unpause is accepted. A
\* successful grant adds the record and leaves the flag alone, a successful
\* unpause (pause) clears (sets) the flag and changes nothing else, so the
\* state after the unpause is the one a mint would have met without the
\* pause; and in an unpaused state no mint of a Minter is refused for the
\* pause flag
C40_PauseIsRecoverable ==
    /\ [](\A t \in DOMAIN config :
            config[t].paused =>
                /\ HoldersOf(t, Admin) # {}
                /\ \A a \in HoldersOf(t, Admin), p \in Holders \ HoldersOf(t, Pauser) :
                      grant_result(a, t, RolePda(ConfigPda(t), a, Admin), p, Pauser) = "Ok"
                /\ \A p \in HoldersOf(t, Pauser) :
                      unpause_result(p, t, RolePda(ConfigPda(t), p, Pauser)) = "Ok")
    /\ [](\A t \in DOMAIN config :
            ~config[t].paused =>
                \A m \in HoldersOf(t, Minter) :
                    mint_accounts_result(m, t, RolePda(ConfigPda(t), m, Minter), NoPrice) = "Ok")
    /\ [][(last'.op = "grant_role" /\ last'.res = "Ok") =>
            /\ \E g \in Holders, r \in Role :
                  /\ ~HasRole(last'.t, g, r)
                  /\ DOMAIN roles' = (DOMAIN roles) \cup {RolePda(ConfigPda(last'.t), g, r)}
            /\ config'[last'.t].paused = config[last'.t].paused]_vars
    /\ [][(last'.op \in {"pause", "unpause"} /\ last'.res = "Ok") =>
            /\ config[last'.t].paused = (last'.op = "unpause")
            /\ config' = [config EXCEPT ![last'.t].paused = (last'.op = "pause")]
            /\ UNCHANGED <<roles, mint_decimals, bal, frozen, sum_minted, sum_burned, blacklist>>]_vars

\* the token has just been unpaused and a Minter's mint is accepted again
C40_Witness ==
    /\ last = Req("unpause", "T1", "h2", "Ok")
    /\ HasRole("T1", "h2", Minter)
    /\ mint_result("h2", "T1", RolePda(ConfigPda("T1"), "h2", Minter), "x", U64_MAX, NoPrice, TRUE) = "Ok"

====
